---- MODULE Spec2Model ----
(***************************************************************************)
(* NotesForge marker-syntax compiler: the block parser of                  *)
(* backend/app/parser.py, its text renderers, the docx exporter of         *)
(* backend/app/exporter.py and the legacy DocumentBuilder of               *)
(* backend/Core.py.                                                        *)
(*                                                                         *)
(* A text is a sequence of one-character strings; a line is such a         *)
(* sequence without "\n".  Python's None for Node.items / Node.rows is     *)
(* the empty sequence: every reader in the source uses `x or []` or the    *)
(* truthiness of x, which do not tell None from [].                        *)
(*                                                                         *)
(* Python evaluates arguments before a call.  An operator that models a    *)
(* function therefore binds each argument once, as the only element of a   *)
(* singleton set:  F(x_) == CHOOSE result \in { body : x \in {x_} } : TRUE   *)
(* is  F(x) == body  with x evaluated at the call.                         *)
(***************************************************************************)
EXTENDS Integers, Sequences, FiniteSets, TLC

\* ------------------------------------------------------------------------
\* Bounds
\* ------------------------------------------------------------------------

\* number of vocabulary lines in an enumerated input text
MaxLines == 2

\* ------------------------------------------------------------------------
\* Characters and the str methods the source uses
\* ------------------------------------------------------------------------

\* str.isspace() characters of the model's alphabet
WS == {" ", "\t", "\n", "\r"}

LowerChars == <<"a","b","c","d","e","f","g","h","i","j","k","l","m",
                "n","o","p","q","r","s","t","u","v","w","x","y","z">>

UpperChars == <<"A","B","C","D","E","F","G","H","I","J","K","L","M",
                "N","O","P","Q","R","S","T","U","V","W","X","Y","Z">>

Digits == {"0","1","2","3","4","5","6","7","8","9"}

\* str.upper() on one character
Upper(c_) ==
  CHOOSE result \in {
    IF \E i \in 1..26 : LowerChars[i] = c
      THEN UpperChars[CHOOSE i \in 1..26 : LowerChars[i] = c]
      ELSE c
    : c \in {c_} } : TRUE

\* str.lstrip(chars)
LStripSet(s_, S_) ==
  CHOOSE result \in {
    IF \A i \in 1..Len(s) : s[i] \in S
      THEN << >>
      ELSE LET k == CHOOSE i \in 1..Len(s) :
                      /\ s[i] \notin S
                      /\ \A j \in 1..(i-1) : s[j] \in S
           IN  SubSeq(s, k, Len(s))
    : s \in {s_}, S \in {S_} } : TRUE

\* str.rstrip(chars)
RStripSet(s_, S_) ==
  CHOOSE result \in {
    IF \A i \in 1..Len(s) : s[i] \in S
      THEN << >>
      ELSE LET k == CHOOSE i \in 1..Len(s) :
                      /\ s[i] \notin S
                      /\ \A j \in (i+1)..Len(s) : s[j] \in S
           IN  SubSeq(s, 1, k)
    : s \in {s_}, S \in {S_} } : TRUE

\* str.strip(chars)
StripSet(s_, S_) ==
  CHOOSE result \in {
      RStripSet(LStripSet(s, S), S)
    : s \in {s_}, S \in {S_} } : TRUE

\* str.strip(), str.lstrip(), str.rstrip()
Strip(s_) ==
  CHOOSE result \in {
      StripSet(s, WS)
    : s \in {s_} } : TRUE
LStrip(s_) ==
  CHOOSE result \in {
      LStripSet(s, WS)
    : s \in {s_} } : TRUE
RStrip(s_) ==
  CHOOSE result \in {
      RStripSet(s, WS)
    : s \in {s_} } : TRUE

\* str.startswith(prefix)
StartsWith(s_, p_) ==
  CHOOSE result \in {
      Len(s) >= Len(p) /\ SubSeq(s, 1, Len(p)) = p
    : s \in {s_}, p \in {p_} } : TRUE

\* str.endswith(suffix)
EndsWith(s_, p_) ==
  CHOOSE result \in {
    Len(s) >= Len(p) /\ SubSeq(s, Len(s) - Len(p) + 1, Len(s)) = p
    : s \in {s_}, p \in {p_} } : TRUE

\* str.split(sep) for a one-character separator
RECURSIVE Split(_, _)
Split(s_, c_) ==
  CHOOSE result \in {
    IF \A i \in 1..Len(s) : s[i] # c THEN << s >>
    ELSE LET k == CHOOSE i \in 1..Len(s) :
                    /\ s[i] = c
                    /\ \A j \in 1..(i-1) : s[j] # c
         IN  << SubSeq(s, 1, k - 1) >> \o Split(SubSeq(s, k + 1, Len(s)), c)
    : s \in {s_}, c \in {c_} } : TRUE

\* sep.join(parts)
RECURSIVE Join(_, _)
Join(parts_, sep_) ==
  CHOOSE result \in {
    IF parts = << >> THEN << >>
    ELSE IF Len(parts) = 1 THEN parts[1]
    ELSE parts[1] \o sep \o Join(Tail(parts), sep)
    : parts \in {parts_}, sep \in {sep_} } : TRUE

\* len(s.split()): the number of maximal runs of non-whitespace
WordCount(s_) ==
  CHOOSE result \in {
    Cardinality({i \in 1..Len(s) :
                   /\ s[i] \notin WS
                   /\ (i = 1 \/ s[i-1] \in WS)})
    : s \in {s_} } : TRUE

\* [x for x in seq if x]
RECURSIVE NonEmpty(_)
NonEmpty(seq_) ==
  CHOOSE result \in {
    IF seq = << >> THEN << >>
    ELSE IF Head(seq) = << >> THEN NonEmpty(Tail(seq))
    ELSE << Head(seq) >> \o NonEmpty(Tail(seq))
    : seq \in {seq_} } : TRUE

\* content.replace("\r\n", "\n"): the "\r" of every "\r\n" is dropped
RECURSIVE ReplaceCRLF(_)
ReplaceCRLF(s_) ==
  CHOOSE result \in {
    LET IsCRLF(i) == s[i] = "\r" /\ i < Len(s) /\ s[i+1] = "\n"
    IN  IF \A i \in 1..Len(s) : ~IsCRLF(i) THEN s
        ELSE LET k == CHOOSE i \in 1..Len(s) :
                        IsCRLF(i) /\ \A j \in 1..(i-1) : ~IsCRLF(j)
             IN  SubSeq(s, 1, k - 1) \o ReplaceCRLF(SubSeq(s, k + 1, Len(s)))
    : s \in {s_} } : TRUE

\* content.replace("\r", "\n")
ReplaceCR(s_) ==
  CHOOSE result \in {
      [i \in 1..Len(s) |-> IF s[i] = "\r" THEN "\n" ELSE s[i]]
    : s \in {s_} } : TRUE

\* content.replace("\r\n", "\n").replace("\r", "\n").split("\n")
SplitLines(content_) ==
  CHOOSE result \in {
      Split(ReplaceCR(ReplaceCRLF(content)), "\n")
    : content \in {content_} } : TRUE

\* ------------------------------------------------------------------------
\* MARKER_RE and the helpers of parser.py
\* ------------------------------------------------------------------------

\* the alternatives of MARKER_RE after H[1-6], in pattern order
Keywords ==
  << [name |-> "PARAGRAPH", chars |-> <<"P","A","R","A","G","R","A","P","H">>],
     [name |-> "BULLET",    chars |-> <<"B","U","L","L","E","T">>],
     [name |-> "NUMBERED",  chars |-> <<"N","U","M","B","E","R","E","D">>],
     [name |-> "CODE",      chars |-> <<"C","O","D","E">>],
     [name |-> "TABLE",     chars |-> <<"T","A","B","L","E">>] >>

HeadingNames == [c \in {"1","2","3","4","5","6"} |->
  CASE c = "1" -> "H1" [] c = "2" -> "H2" [] c = "3" -> "H3"
    [] c = "4" -> "H4" [] c = "5" -> "H5" [] c = "6" -> "H6"]

\* re.IGNORECASE comparison of a literal with the start of s
MatchesKeywordCI(s_, kw_) ==
  CHOOSE result \in {
    /\ Len(s) >= Len(kw)
    /\ \A i \in 1..Len(kw) : Upper(s[i]) = kw[i]
    : s \in {s_}, kw \in {kw_} } : TRUE

NoMatch == [ok |-> FALSE, marker |-> "", payload |-> << >>]

\* the tail `\s*:\s*(.*)$` of MARKER_RE after the marker name;
\* payload is group(2).strip()
MarkerTail(name_, rest_) ==
  CHOOSE result \in {
    LET r == LStrip(rest)
    IN  IF r # << >> /\ Head(r) = ":"
          THEN [ok |-> TRUE, marker |-> name, payload |-> Strip(Tail(r))]
          ELSE NoMatch
    : name \in {name_}, rest \in {rest_} } : TRUE

\* MARKER_RE.match without re.IGNORECASE
MarkerMatch_CaseSensitive(line_) ==
  CHOOSE result \in {
    LET s == LStrip(line)
    IN  IF Len(s) >= 2 /\ s[1] = "H" /\ s[2] \in DOMAIN HeadingNames
          THEN MarkerTail(HeadingNames[s[2]], SubSeq(s, 3, Len(s)))
        ELSE IF \E k \in 1..Len(Keywords) : StartsWith(s, Keywords[k].chars)
          THEN LET k == CHOOSE k \in 1..Len(Keywords) :
                          StartsWith(s, Keywords[k].chars)
               IN  MarkerTail(Keywords[k].name,
                              SubSeq(s, Len(Keywords[k].chars) + 1, Len(s)))
        ELSE NoMatch
    : line \in {line_} } : TRUE

\* MARKER_RE.match(line); marker is group(1).upper()
MarkerMatch(line_) ==
  CHOOSE result \in {
    LET s == LStrip(line)
    IN  IF Len(s) >= 2 /\ Upper(s[1]) = "H" /\ s[2] \in DOMAIN HeadingNames
          THEN MarkerTail(HeadingNames[s[2]], SubSeq(s, 3, Len(s)))
        ELSE IF \E k \in 1..Len(Keywords) : MatchesKeywordCI(s, Keywords[k].chars)
          THEN LET k == CHOOSE k \in 1..Len(Keywords) :
                          MatchesKeywordCI(s, Keywords[k].chars)
               IN  MarkerTail(Keywords[k].name,
                              SubSeq(s, Len(Keywords[k].chars) + 1, Len(s)))
        ELSE NoMatch
    : line \in {line_} } : TRUE

_is_marker_line(line_) ==
  CHOOSE result \in {
      MarkerMatch(line).ok
    : line \in {line_} } : TRUE

\* _split_table_row without the empty result for a row of pipes only
_split_table_row_KeepsEmpty(row_) ==
  CHOOSE result \in {
    LET cols == Split(StripSet(Strip(row), {"|"}), "|")
    IN  [i \in 1..Len(cols) |-> Strip(cols[i])]
    : row \in {row_} } : TRUE

_split_table_row(row_) ==
  CHOOSE result \in {
    LET cleaned == StripSet(Strip(row), {"|"})
    IN  IF cleaned = << >> THEN << >>
        ELSE LET cols == Split(cleaned, "|")
             IN  [i \in 1..Len(cols) |-> Strip(cols[i])]
    : row \in {row_} } : TRUE

\* re.sub(r"^\d+[.)]\s*", "", s)
StripNumberPrefix(s_) ==
  CHOOSE result \in {
    LET n == IF \A i \in 1..Len(s) : s[i] \in Digits THEN Len(s)
             ELSE (CHOOSE i \in 1..Len(s) :
                     /\ s[i] \notin Digits
                     /\ \A j \in 1..(i-1) : s[j] \in Digits) - 1
    IN  IF n >= 1 /\ Len(s) > n /\ s[n+1] \in {".", ")"}
          THEN LStrip(SubSeq(s, n + 2, Len(s)))
          ELSE s
    : s \in {s_} } : TRUE

\* ------------------------------------------------------------------------
\* Node
\* ------------------------------------------------------------------------

Node(t, txt, lvl, its, rws) ==
  [type |-> t, text |-> txt, level |-> lvl, items |-> its, rows |-> rws]

Warning(n, k) == [line |-> n, kind |-> k]

\* ------------------------------------------------------------------------
\* parse_notesforge: the block handlers
\* ------------------------------------------------------------------------

\* the lookahead loop of the PARAGRAPH branch
RECURSIVE ParagraphLook(_, _, _)
ParagraphLook(ls_, n_, acc_) ==
  CHOOSE result \in {
    IF n >= Len(ls) THEN [next |-> n, acc |-> acc]
    ELSE IF _is_marker_line(ls[n+1]) THEN [next |-> n, acc |-> acc]
    ELSE IF Strip(ls[n+1]) = << >> THEN [next |-> n, acc |-> acc]
    ELSE ParagraphLook(ls, n + 1, Append(acc, Strip(ls[n+1])))
    : ls \in {ls_}, n \in {n_}, acc \in {acc_} } : TRUE

ParagraphBlock(ls_, idx_, payload_) ==
  CHOOSE result \in {
    LET r == ParagraphLook(ls, idx + 1,
                           IF payload # << >> THEN << payload >> ELSE << >>)
    IN  [emit  |-> TRUE,
         node  |-> Node("paragraph", Strip(Join(NonEmpty(r.acc), << " " >>)),
                        0, << >>, << >>),
         warns |-> << >>,
         next  |-> IF r.next > idx THEN r.next ELSE idx + 1]
    : ls \in {ls_}, idx \in {idx_}, payload \in {payload_} } : TRUE

\* BulletLook without the break on a marker line
RECURSIVE BulletLook_SkipsMarkers(_, _, _)
BulletLook_SkipsMarkers(ls_, n_, items_) ==
  CHOOSE result \in {
    IF n >= Len(ls) THEN [next |-> n, acc |-> items]
    ELSE LET nline == Strip(ls[n+1])
         IN  IF nline = << >> THEN BulletLook_SkipsMarkers(ls, n + 1, items)
             ELSE BulletLook_SkipsMarkers(ls, n + 1, Append(items, nline))
    : ls \in {ls_}, n \in {n_}, items \in {items_} } : TRUE

\* the lookahead loop of the BULLET branch
RECURSIVE BulletLook(_, _, _)
BulletLook(ls_, n_, items_) ==
  CHOOSE result \in {
    IF n >= Len(ls) THEN [next |-> n, acc |-> items]
    ELSE IF _is_marker_line(ls[n+1]) THEN [next |-> n, acc |-> items]
    ELSE LET nline == Strip(ls[n+1])
         IN  IF nline = << >> THEN BulletLook(ls, n + 1, items)
             ELSE IF Head(nline) \in {"-", "*"}
               THEN BulletLook(ls, n + 1,
                      Append(items, Strip(LStripSet(nline, {"-", "*", " "}))))
             ELSE BulletLook(ls, n + 1, Append(items, nline))
    : ls \in {ls_}, n \in {n_}, items \in {items_} } : TRUE

\* BulletBlock with a lookahead that stops at the first blank line
BulletBlock_StopsAtBlank(ls_, idx_, payload_) ==
  CHOOSE result \in {
    LET cleaned == Strip(LStripSet(payload, {"-", "*", " "}))
        blanks == { j \in (idx + 2)..Len(ls) : Strip(ls[j]) = << >> }
        upto == IF blanks = {} THEN Len(ls)
                ELSE (CHOOSE j \in blanks : \A h \in blanks : j <= h) - 1
        r == BulletLook(SubSeq(ls, 1, upto), idx + 1,
                        IF payload # << >> /\ cleaned # << >>
                          THEN << cleaned >> ELSE << >>)
    IN  [emit  |-> TRUE,
         node  |-> Node("bullet", << >>, 0, r.acc, << >>),
         warns |-> IF r.acc = << >>
                     THEN << Warning(idx + 1, "BULLET block has no items") >>
                     ELSE << >>,
         next  |-> r.next]
    : ls \in {ls_}, idx \in {idx_}, payload \in {payload_} } : TRUE

BulletBlock(ls_, idx_, payload_) ==
  CHOOSE result \in {
    LET cleaned == Strip(LStripSet(payload, {"-", "*", " "}))
        r == BulletLook(ls, idx + 1,
                        IF payload # << >> /\ cleaned # << >>
                          THEN << cleaned >> ELSE << >>)
    IN  [emit  |-> TRUE,
         node  |-> Node("bullet", << >>, 0, r.acc, << >>),
         warns |-> IF r.acc = << >>
                     THEN << Warning(idx + 1, "BULLET block has no items") >>
                     ELSE << >>,
         next  |-> r.next]
    : ls \in {ls_}, idx \in {idx_}, payload \in {payload_} } : TRUE

\* the lookahead loop of the NUMBERED branch
RECURSIVE NumberedLook(_, _, _)
NumberedLook(ls_, n_, items_) ==
  CHOOSE result \in {
    IF n >= Len(ls) THEN [next |-> n, acc |-> items]
    ELSE IF _is_marker_line(ls[n+1]) THEN [next |-> n, acc |-> items]
    ELSE LET nline == Strip(ls[n+1])
             cleaned == Strip(StripNumberPrefix(nline))
         IN  IF nline = << >> THEN NumberedLook(ls, n + 1, items)
             ELSE NumberedLook(ls, n + 1,
                    Append(items, IF cleaned # << >> THEN cleaned ELSE nline))
    : ls \in {ls_}, n \in {n_}, items \in {items_} } : TRUE

\* the NUMBERED branch without the warning for a list of no items
NumberedBlock_NoWarning(ls_, idx_, payload_) ==
  CHOOSE result \in {
    LET cleaned == Strip(StripNumberPrefix(payload))
        r == NumberedLook(ls, idx + 1,
                          IF payload # << >> /\ cleaned # << >>
                            THEN << cleaned >> ELSE << >>)
    IN  [emit  |-> TRUE,
         node  |-> Node("numbered", << >>, 0, r.acc, << >>),
         warns |-> << >>,
         next  |-> r.next]
    : ls \in {ls_}, idx \in {idx_}, payload \in {payload_} } : TRUE

NumberedBlock(ls_, idx_, payload_) ==
  CHOOSE result \in {
    LET cleaned == Strip(StripNumberPrefix(payload))
        r == NumberedLook(ls, idx + 1,
                          IF payload # << >> /\ cleaned # << >>
                            THEN << cleaned >> ELSE << >>)
    IN  [emit  |-> TRUE,
         node  |-> Node("numbered", << >>, 0, r.acc, << >>),
         warns |-> IF r.acc = << >>
                     THEN << Warning(idx + 1, "NUMBERED block has no items") >>
                     ELSE << >>,
         next  |-> r.next]
    : ls \in {ls_}, idx \in {idx_}, payload \in {payload_} } : TRUE

\* CodeLook without the break on a marker line
RECURSIVE CodeLook_SkipsMarkers(_, _, _)
CodeLook_SkipsMarkers(ls_, n_, code_lines_) ==
  CHOOSE result \in {
    IF n >= Len(ls) THEN [next |-> n, acc |-> code_lines]
    ELSE CodeLook_SkipsMarkers(ls, n + 1, Append(code_lines, RStrip(ls[n+1])))
    : ls \in {ls_}, n \in {n_}, code_lines \in {code_lines_} } : TRUE

\* CodeLook with str.strip() in place of str.rstrip()
RECURSIVE CodeLook_Strips(_, _, _)
CodeLook_Strips(ls_, n_, code_lines_) ==
  CHOOSE result \in {
    IF n >= Len(ls) THEN [next |-> n, acc |-> code_lines]
    ELSE IF _is_marker_line(ls[n+1]) THEN [next |-> n, acc |-> code_lines]
    ELSE CodeLook_Strips(ls, n + 1, Append(code_lines, Strip(ls[n+1])))
    : ls \in {ls_}, n \in {n_}, code_lines \in {code_lines_} } : TRUE

\* the lookahead loop of the CODE branch
RECURSIVE CodeLook(_, _, _)
CodeLook(ls_, n_, code_lines_) ==
  CHOOSE result \in {
    IF n >= Len(ls) THEN [next |-> n, acc |-> code_lines]
    ELSE IF _is_marker_line(ls[n+1]) THEN [next |-> n, acc |-> code_lines]
    ELSE CodeLook(ls, n + 1, Append(code_lines, RStrip(ls[n+1])))
    : ls \in {ls_}, n \in {n_}, code_lines \in {code_lines_} } : TRUE

\* "\n".join(code_lines).strip("\n")
CodeText(code_lines_) ==
  CHOOSE result \in {
      StripSet(Join(code_lines, << "\n" >>), {"\n"})
    : code_lines \in {code_lines_} } : TRUE

CodeBlock(ls_, idx_, payload_) ==
  CHOOSE result \in {
    LET r == CodeLook(ls, idx + 1,
                      IF payload # << >> THEN << payload >> ELSE << >>)
    IN  [emit  |-> TRUE,
         node  |-> Node("code", CodeText(r.acc), 0, << >>, << >>),
         warns |-> << >>,
         next  |-> r.next]
    : ls \in {ls_}, idx \in {idx_}, payload \in {payload_} } : TRUE

\* the lookahead loop of the TABLE branch
RECURSIVE TableLook(_, _, _, _)
TableLook(ls_, n_, rows_, warns_) ==
  CHOOSE result \in {
    IF n >= Len(ls) THEN [next |-> n, acc |-> rows, warns |-> warns]
    ELSE IF _is_marker_line(ls[n+1])
      THEN [next |-> n, acc |-> rows, warns |-> warns]
    ELSE LET nline == Strip(ls[n+1])
             split == _split_table_row(nline)
         IN  IF nline = << >> THEN TableLook(ls, n + 1, rows, warns)
             ELSE IF Head(nline) = "|"
               THEN TableLook(ls, n + 1,
                      IF split # << >> THEN Append(rows, split) ELSE rows,
                      warns)
             ELSE TableLook(ls, n + 1, rows,
                    Append(warns, Warning(n + 1, "ignored invalid TABLE row")))
    : ls \in {ls_}, n \in {n_}, rows \in {rows_}, warns \in {warns_} } : TRUE

\* the TABLE branch without the warning for a table of no rows
TableBlock_NoWarning(ls_, idx_, payload_) ==
  CHOOSE result \in {
    LET row == _split_table_row(payload)
        r == TableLook(ls, idx + 1,
                       IF StartsWith(payload, << "|" >>) /\ row # << >>
                         THEN << row >> ELSE << >>,
                       << >>)
    IN  [emit  |-> TRUE,
         node  |-> Node("table", << >>, 0, << >>, r.acc),
         warns |-> r.warns,
         next  |-> r.next]
    : ls \in {ls_}, idx \in {idx_}, payload \in {payload_} } : TRUE

TableBlock(ls_, idx_, payload_) ==
  CHOOSE result \in {
    LET row == _split_table_row(payload)
        r == TableLook(ls, idx + 1,
                       IF StartsWith(payload, << "|" >>) /\ row # << >>
                         THEN << row >> ELSE << >>,
                       << >>)
    IN  [emit  |-> TRUE,
         node  |-> Node("table", << >>, 0, << >>, r.acc),
         warns |-> r.warns \o
                   (IF r.acc = << >>
                      THEN << Warning(idx + 1, "TABLE has no rows") >>
                      ELSE << >>),
         next  |-> r.next]
    : ls \in {ls_}, idx \in {idx_}, payload \in {payload_} } : TRUE

HeadingBlock(idx_, marker_, payload_) ==
  CHOOSE result \in {
    LET lvl == CHOOSE l \in 1..6 : HeadingNames[<<"1","2","3","4","5","6">>[l]] = marker
    IN  [emit  |-> TRUE,
         node  |-> Node("heading", payload, lvl, << >>, << >>),
         warns |-> << >>,
         next  |-> idx + 1]
    : idx \in {idx_}, marker \in {marker_}, payload \in {payload_} } : TRUE

\* StrayBlock reporting the 0-based index
StrayBlock_ZeroBased(ls_, idx_) ==
  CHOOSE result \in {
    [emit  |-> TRUE,
     node  |-> Node("paragraph", Strip(ls[idx+1]), 0, << >>, << >>),
     warns |-> << Warning(idx, "treated as PARAGRAPH (no marker found)") >>,
     next  |-> idx + 1]
    : ls \in {ls_}, idx \in {idx_} } : TRUE

StrayBlock(ls_, idx_) ==
  CHOOSE result \in {
    [emit  |-> TRUE,
     node  |-> Node("paragraph", Strip(ls[idx+1]), 0, << >>, << >>),
     warns |-> << Warning(idx + 1, "treated as PARAGRAPH (no marker found)") >>,
     next  |-> idx + 1]
    : ls \in {ls_}, idx \in {idx_} } : TRUE

NoNode(idx_) ==
  CHOOSE result \in {
    [emit |-> FALSE, node |-> Node("", << >>, 0, << >>, << >>),
     warns |-> << >>, next |-> idx + 1]
    : idx \in {idx_} } : TRUE

\* which branch of the main loop the line at idx takes
Branch(ls_, idx_) ==
  CHOOSE result \in {
    LET m == MarkerMatch(ls[idx+1])
    IN  IF Strip(ls[idx+1]) = << >> THEN "blank"
        ELSE IF ~m.ok THEN "stray"
        ELSE IF m.marker \in {"H1","H2","H3","H4","H5","H6"} THEN "heading"
        ELSE IF m.marker \in {"PARAGRAPH","BULLET","NUMBERED","CODE","TABLE"}
          THEN m.marker
        ELSE "other"
    : ls \in {ls_}, idx \in {idx_} } : TRUE

\* ParseStep with a line without a marker skipped silently
ParseStep_SkipsStray(ls_, idx_) ==
  CHOOSE result \in {
    LET m == MarkerMatch(ls[idx+1])
        b == Branch(ls, idx)
    IN  CASE b = "blank"     -> NoNode(idx)
          [] b = "stray"     -> NoNode(idx)
          [] b = "heading"   -> HeadingBlock(idx, m.marker, m.payload)
          [] b = "PARAGRAPH" -> ParagraphBlock(ls, idx, m.payload)
          [] b = "BULLET"    -> BulletBlock(ls, idx, m.payload)
          [] b = "NUMBERED"  -> NumberedBlock(ls, idx, m.payload)
          [] b = "CODE"      -> CodeBlock(ls, idx, m.payload)
          [] b = "TABLE"     -> TableBlock(ls, idx, m.payload)
          [] OTHER           -> NoNode(idx)
    : ls \in {ls_}, idx \in {idx_} } : TRUE

\* one iteration of the main loop `while idx < len(lines)`
ParseStep(ls_, idx_) ==
  CHOOSE result \in {
    LET m == MarkerMatch(ls[idx+1])
        b == Branch(ls, idx)
    IN  CASE b = "blank"     -> NoNode(idx)
          [] b = "stray"     -> StrayBlock(ls, idx)
          [] b = "heading"   -> HeadingBlock(idx, m.marker, m.payload)
          [] b = "PARAGRAPH" -> ParagraphBlock(ls, idx, m.payload)
          [] b = "BULLET"    -> BulletBlock(ls, idx, m.payload)
          [] b = "NUMBERED"  -> NumberedBlock(ls, idx, m.payload)
          [] b = "CODE"      -> CodeBlock(ls, idx, m.payload)
          [] b = "TABLE"     -> TableBlock(ls, idx, m.payload)
          [] OTHER           -> NoNode(idx)
    : ls \in {ls_}, idx \in {idx_} } : TRUE

\* ------------------------------------------------------------------------
\* parse_notesforge: the summary
\* ------------------------------------------------------------------------

RECURSIVE Flatten(_)
Flatten(seqs_) ==
  CHOOSE result \in {
    IF seqs = << >> THEN << >> ELSE Head(seqs) \o Flatten(Tail(seqs))
    : seqs \in {seqs_} } : TRUE

\* all_text_parts without the table cells
RECURSIVE AllTextParts_NoCells(_)
AllTextParts_NoCells(ns_) ==
  CHOOSE result \in {
    IF ns = << >> THEN << >>
    ELSE LET node == Head(ns)
         IN  (IF node.type \in {"heading", "paragraph", "code"}
                  /\ node.text # << >>
                THEN << node.text >> ELSE << >>)
             \o node.items
             \o AllTextParts_NoCells(Tail(ns))
    : ns \in {ns_} } : TRUE

\* all_text_parts
RECURSIVE AllTextParts(_)
AllTextParts(ns_) ==
  CHOOSE result \in {
    IF ns = << >> THEN << >>
    ELSE LET node == Head(ns)
         IN  (IF node.type \in {"heading", "paragraph", "code"}
                  /\ node.text # << >>
                THEN << node.text >> ELSE << >>)
             \o node.items
             \o Flatten(node.rows)
             \o AllTextParts(Tail(ns))
    : ns \in {ns_} } : TRUE

\* len(" ".join(all_text_parts).split())
word_count(ns_) ==
  CHOOSE result \in {
      WordCount(Join(AllTextParts(ns), << " " >>))
    : ns \in {ns_} } : TRUE

heading_count(ns_) ==
  CHOOSE result \in {
    Cardinality({i \in 1..Len(ns) : ns[i].type = "heading"})
    : ns \in {ns_} } : TRUE

\* The binary64 quotient n / d compared with the exact quotient, by long
\* division: 1 when round-to-nearest-even rounded the 53-bit significand up,
\* -1 when it rounded down, 0 when the quotient is exact.  r is the
\* remainder after `bits` significand bits, lsb the last bit; the division
\* yields thirteen bits of the significand at a time (2^13 = 8192).
RECURSIVE SignificandRounding(_, _, _, _)
SignificandRounding(r_, d_, bits_, lsb_) ==
  CHOOSE result \in {
    IF bits = 53
      THEN IF r = 0 THEN 0
           ELSE IF 2 * r > d \/ (2 * r = d /\ lsb = 1) THEN 1
           ELSE -1
      ELSE SignificandRounding((r * 8192) % d, d, bits + 13,
                               ((r * 8192) \div d) % 2)
    : r \in {r_}, d \in {d_}, bits \in {bits_}, lsb \in {lsb_} } : TRUE

RECURSIVE Normalise(_, _)
Normalise(n_, d_) ==
  CHOOSE result \in {
    IF n >= 2 * d THEN Normalise(n, 2 * d)
    ELSE IF n < d THEN Normalise(2 * n, d)
    ELSE [n |-> n, d |-> d]
    : n \in {n_}, d \in {d_} } : TRUE

QuotientRounding(n_, d_) ==
  CHOOSE result \in {
    LET nd == Normalise(n, d)
    IN  SignificandRounding(nd.n - nd.d, nd.d, 1, 1)
    : n \in {n_}, d \in {d_} } : TRUE

\* word_count / 200 truncated to 2 decimal places
reading_time_Truncated(wc_) ==
  CHOOSE result \in {
      wc \div 2
    : wc \in {wc_} } : TRUE

\* round(word_count / 200.0, 2), in hundredths of a minute: the decimal
\* nearest to the binary64 quotient, an exact decimal tie going to the even
\* hundredth
reading_time(wc_) ==
  CHOOSE result \in {
    LET k == wc \div 2
        q == QuotientRounding(wc, 200)
    IN  IF wc % 2 = 0 THEN k
        ELSE IF q = 1 THEN k + 1
        ELSE IF q = -1 THEN k
        ELSE IF k % 2 = 0 THEN k ELSE k + 1
    : wc \in {wc_} } : TRUE

Summary(ns_) ==
  CHOOSE result \in {
    [word_count |-> word_count(ns),
     heading_count |-> heading_count(ns),
     reading_time_minutes |-> reading_time(word_count(ns))]
    : ns \in {ns_} } : TRUE

\* parse_notesforge as a function of the text
RECURSIVE ParseLoop(_, _, _, _)
ParseLoop(ls_, idx_, ns_, ws_) ==
  CHOOSE result \in {
    IF idx >= Len(ls) THEN [nodes |-> ns, warnings |-> ws, summary |-> Summary(ns)]
    ELSE LET st == ParseStep(ls, idx)
         IN  ParseLoop(ls, st.next,
                       IF st.emit THEN Append(ns, st.node) ELSE ns,
                       ws \o st.warns)
    : ls \in {ls_}, idx \in {idx_}, ns \in {ns_}, ws \in {ws_} } : TRUE

parse_notesforge(content_) ==
  CHOOSE result \in {
      ParseLoop(SplitLines(content), 0, << >>, << >>)
    : content \in {content_} } : TRUE

\* ------------------------------------------------------------------------
\* The text renderers of parser.py
\* ------------------------------------------------------------------------

DigitChars == <<"0","1","2","3","4","5","6","7","8","9">>

\* str(n) for n >= 0
RECURSIVE Decimal(_)
Decimal(n_) ==
  CHOOSE result \in {
    IF n < 10 THEN << DigitChars[n + 1] >>
    ELSE Append(Decimal(n \div 10), DigitChars[(n % 10) + 1])
    : n \in {n_} } : TRUE

\* '#' * k
Hashes(k_) ==
  CHOOSE result \in {
      [i \in 1..k |-> "#"]
    : k \in {k_} } : TRUE

Max(a_, b_) ==
  CHOOSE result \in {
      IF a >= b THEN a ELSE b
    : a \in {a_}, b \in {b_} } : TRUE
Min(a_, b_) ==
  CHOOSE result \in {
      IF a <= b THEN a ELSE b
    : a \in {a_}, b \in {b_} } : TRUE

\* "| " + " | ".join(cells) + " |"
PipeRow(cells_) ==
  CHOOSE result \in {
      << "|", " " >> \o Join(cells, << " ", "|", " " >>) \o << " ", "|" >>
    : cells \in {cells_} } : TRUE

Dashes == << "-", "-", "-" >>

\* the grave accent U+0060, written as an atom
Backtick == "BACKTICK"

Fence == << Backtick, Backtick, Backtick >>

\* MarkdownLines without the empty line after a paragraph
MarkdownLines_ParagraphNoBlank(node_) ==
  CHOOSE result \in {
    (CASE node.type = "heading" ->
            << Hashes(Max(1, Min(6, node.level))) \o << " " >> \o node.text >>
       [] node.type = "paragraph" -> << node.text >>
       [] node.type = "bullet" ->
            [i \in 1..Len(node.items) |-> << "-", " " >> \o node.items[i]]
       [] node.type = "numbered" ->
            [i \in 1..Len(node.items) |->
               Decimal(i) \o << ".", " " >> \o node.items[i]]
       [] node.type = "code" -> << Fence, node.text, Fence >>
       [] node.type = "table" ->
            IF node.rows = << >> THEN << >>
            ELSE << PipeRow(node.rows[1]),
                    PipeRow([c \in 1..Len(node.rows[1]) |-> Dashes]) >>
                 \o [r \in 1..(Len(node.rows) - 1) |-> PipeRow(node.rows[r + 1])]
       [] OTHER -> << >>)
    \o (IF node.type = "paragraph" THEN << >> ELSE << << >> >>)
    : node \in {node_} } : TRUE

\* the lines one node appends in to_markdown, the trailing "" included
MarkdownLines(node_) ==
  CHOOSE result \in {
    (CASE node.type = "heading" ->
            << Hashes(Max(1, Min(6, node.level))) \o << " " >> \o node.text >>
       [] node.type = "paragraph" -> << node.text >>
       [] node.type = "bullet" ->
            [i \in 1..Len(node.items) |-> << "-", " " >> \o node.items[i]]
       [] node.type = "numbered" ->
            [i \in 1..Len(node.items) |->
               Decimal(i) \o << ".", " " >> \o node.items[i]]
       [] node.type = "code" -> << Fence, node.text, Fence >>
       [] node.type = "table" ->
            IF node.rows = << >> THEN << >>
            ELSE << PipeRow(node.rows[1]),
                    PipeRow([c \in 1..Len(node.rows[1]) |-> Dashes]) >>
                 \o [r \in 1..(Len(node.rows) - 1) |-> PipeRow(node.rows[r + 1])]
       [] OTHER -> << >>)
    \o << << >> >>
    : node \in {node_} } : TRUE

RECURSIVE MarkdownAll(_)
MarkdownAll(ns_) ==
  CHOOSE result \in {
    IF ns = << >> THEN << >>
    ELSE MarkdownLines(Head(ns)) \o MarkdownAll(Tail(ns))
    : ns \in {ns_} } : TRUE

\* to_markdown that returns the joined lines without trimming them
to_markdown_Untrimmed(ns_) ==
  CHOOSE result \in {
      Join(MarkdownAll(ns), << "\n" >>) \o << "\n" >>
    : ns \in {ns_} } : TRUE

\* to_markdown(nodes)
to_markdown(ns_) ==
  CHOOSE result \in {
      Strip(Join(MarkdownAll(ns), << "\n" >>)) \o << "\n" >>
    : ns \in {ns_} } : TRUE

\* the lines one node appends in to_plain_text, the trailing "" included
PlainLines(node_) ==
  CHOOSE result \in {
    (CASE node.type = "heading" -> << node.text >>
       [] node.type = "paragraph" -> << node.text >>
       [] node.type = "bullet" ->
            [i \in 1..Len(node.items) |-> << "-", " " >> \o node.items[i]]
       [] node.type = "numbered" ->
            [i \in 1..Len(node.items) |->
               Decimal(i) \o << ".", " " >> \o node.items[i]]
       [] node.type = "code" -> << node.text >>
       [] node.type = "table" ->
            [r \in 1..Len(node.rows) |-> Join(node.rows[r], << " ", "|", " " >>)]
       [] OTHER -> << >>)
    \o << << >> >>
    : node \in {node_} } : TRUE

RECURSIVE PlainAll(_)
PlainAll(ns_) ==
  CHOOSE result \in {
    IF ns = << >> THEN << >>
    ELSE PlainLines(Head(ns)) \o PlainAll(Tail(ns))
    : ns \in {ns_} } : TRUE

\* to_plain_text(nodes)
to_plain_text(ns_) ==
  CHOOSE result \in {
      Strip(Join(PlainAll(ns), << "\n" >>)) \o << "\n" >>
    : ns \in {ns_} } : TRUE

\* html.escape(s) (quote=True): each character replaced on its own, the
\* text taken by halves
RECURSIVE escape(_)
escape(s_) ==
  CHOOSE result \in {
    IF s = << >> THEN << >>
    ELSE IF Len(s) = 1
      THEN CASE s[1] = "&"  -> << "&", "a", "m", "p", ";" >>
             [] s[1] = "<"  -> << "&", "l", "t", ";" >>
             [] s[1] = ">"  -> << "&", "g", "t", ";" >>
             [] s[1] = "\"" -> << "&", "q", "u", "o", "t", ";" >>
             [] s[1] = "'"  -> << "&", "#", "x", "2", "7", ";" >>
             [] OTHER       -> s
    ELSE escape(SubSeq(s, 1, Len(s) \div 2))
         \o escape(SubSeq(s, Len(s) \div 2 + 1, Len(s)))
    : s \in {s_} } : TRUE

\* the fragments of one table row: one <th> or <td> per cell
CellFragments(row_, tag_, endtag_) ==
  CHOOSE result \in {
    Flatten([c \in 1..Len(row) |-> << tag >> \o escape(row[c]) \o << endtag >>])
    : row \in {row_}, tag \in {tag_}, endtag \in {endtag_} } : TRUE

ItemFragments(items_) ==
  CHOOSE result \in {
    Flatten([i \in 1..Len(items) |->
               << "<li>" >> \o escape(items[i]) \o << "</li>" >>])
    : items \in {items_} } : TRUE

HeadingTag(level_, closing_) ==
  CHOOSE result \in {
    (IF closing THEN << "</h" >> ELSE << "<h" >>) \o Decimal(level) \o << ">" >>
    : level \in {level_}, closing \in {closing_} } : TRUE

\* the fragments one node appends in render_preview_html; a tag is one
\* element, text is escaped character by character
PreviewFragments(node_) ==
  CHOOSE result \in {
    CASE node.type = "heading" ->
           LET level == Max(1, Min(6, node.level))
           IN  HeadingTag(level, FALSE) \o escape(node.text)
               \o HeadingTag(level, TRUE)
      [] node.type = "paragraph" ->
           << "<p>" >> \o escape(node.text) \o << "</p>" >>
      [] node.type = "bullet" ->
           << "<ul>" >> \o ItemFragments(node.items) \o << "</ul>" >>
      [] node.type = "numbered" ->
           << "<ol>" >> \o ItemFragments(node.items) \o << "</ol>" >>
      [] node.type = "code" ->
           << "<pre><code>" >> \o escape(node.text) \o << "</code></pre>" >>
      [] node.type = "table" ->
           IF node.rows = << >> THEN << >>
           ELSE << "<table><thead><tr>" >>
                \o CellFragments(node.rows[1], "<th>", "</th>")
                \o << "</tr></thead><tbody>" >>
                \o Flatten([r \in 1..(Len(node.rows) - 1) |->
                     << "<tr>" >>
                     \o CellFragments(node.rows[r + 1], "<td>", "</td>")
                     \o << "</tr>" >>])
                \o << "</tbody></table>" >>
      [] OTHER -> << >>
    : node \in {node_} } : TRUE

RECURSIVE PreviewAll(_)
PreviewAll(ns_) ==
  CHOOSE result \in {
    IF ns = << >> THEN << >>
    ELSE PreviewFragments(Head(ns)) \o PreviewAll(Tail(ns))
    : ns \in {ns_} } : TRUE

\* render_preview_html(nodes, css, watermark_html)
render_preview_html(ns_, css_, watermark_) ==
  CHOOSE result \in {
    << "<style>" >> \o css \o << "</style>" >>
    \o << "<div class=\"nf-preview-root\">" >>
    \o watermark
    \o PreviewAll(ns)
    \o << "</div>" >>
    : ns \in {ns_}, css \in {css_}, watermark \in {watermark_} } : TRUE

\* ------------------------------------------------------------------------
\* Input texts
\* ------------------------------------------------------------------------

\* the lines enumerated texts are made of
Vocabulary ==
  { << >>,
    << " " >>,
    << "H", "1", ":", " ", "T" >>,
    << "h", "2", " ", ":", " ", "a", " ", "b" >>,
    << "P", "A", "R", "A", "G", "R", "A", "P", "H", ":", " ", "a" >>,
    << " ", " ", "b", " ", "c" >>,
    << "B", "U", "L", "L", "E", "T", ":" >>,
    << "-", " ", "a" >>,
    << "N", "U", "M", "B", "E", "R", "E", "D", ":", " ", "1", ".", " ",
       "a" >>,
    << "2", ")", " ", "b" >>,
    << "C", "O", "D", "E", ":" >>,
    << "T", "A", "B", "L", "E", ":" >>,
    << "|", " ", "a", " ", "|", " ", "b", " ", "|" >>,
    << "|", "|", "c" >>,
    << "x", "|", "y" >>,
    << "Q", "U", "O", "T", "E", ":", " ", "q" >> }

\* scenario: headings, paragraph and bullet list
S_Structure ==
  << "H", "1", ":", " ", "T", "i", "t", "l", "e", "\n", "P", "A", "R", "A",
     "G", "R", "A", "P", "H", ":", " ", "H", "e", "l", "l", "o", " ", "w",
     "o", "r", "l", "d", "\n", "B", "U", "L", "L", "E", "T", ":", "\n",
     "-", " ", "o", "n", "e", "\n", "-", " ", "t", "w", "o", "\n" >>

\* scenario: a two-column table
S_Table ==
  << "T", "A", "B", "L", "E", ":", "\n", "|", " ", "A", " ", "|", " ", "B",
     " ", "|", "\n", "|", " ", "1", " ", "|", " ", "2", " ", "|", "\n" >>

\* scenario: a table with text on its marker line
S_TableCaption ==
  << "T", "A", "B", "L", "E", ":", " ", "R", "e", "s", "u", "l", "t", "s",
     "\n", "|", " ", "a", " ", "|", " ", "b", " ", "|", "\n", "|", " ",
     "1", " ", "|", " ", "2", " ", "|" >>

\* scenario: an unmarked stray line
S_Stray ==
  << "j", "u", "s", "t", " ", "s", "o", "m", "e", " ", "t", "e", "x", "t" >>

\* scenario: an indented code block
S_Code ==
  << "C", "O", "D", "E", ":", "\n", " ", " ", "i", "n", "d", "e", "n", "t",
     "e", "d", " ", "l", "i", "n", "e", "\n", "l", "i", "n", "e", "2",
     "\n" >>

\* a code block with payload, interior and trailing blank lines
S_CodeBlanks ==
  << "C", "O", "D", "E", ":", " ", "x", "\n", "\n", " ", " ", "a", "\n",
     "\n", "b", " ", "\n", "\n" >>

\* a code block whose first content line is blank
S_CodeLeading ==
  << "C", "O", "D", "E", ":", "\n", "\n", " ", " ", "a", "\n", "H", "1",
     ":", " ", "T" >>

\* a jagged table with a payload row, empty cells and an invalid row
S_TableRows ==
  << "T", "A", "B", "L", "E", ":", " ", "|", " ", "h", " ", "|", " ", "k",
     "\n", "|", " ", "1", " ", "|", " ", "2", " ", "|", " ", "3", " ", "|",
     "\n", "\n", "|", " ", "4", " ", "|", "\n", "|", " ", " ", "|", " ",
     "5", " ", "|", "\n", "|", "|", "6", "|", "\n", "|", "\n", "b", "a",
     "d", " ", "r", "o", "w" >>

\* lists with blank lines, glyphs and number prefixes
S_Lists ==
  << "B", "U", "L", "L", "E", "T", ":", " ", "-", " ", "a", "\n", "*", " ",
     "b", "\n", "\n", "c", "\n", "N", "U", "M", "B", "E", "R", "E", "D",
     ":", "\n", "1", ".", " ", "x", "\n", "2", ")", " ", "y", "\n", "3",
     ".", "\n", "z" >>

\* inline styles in a paragraph
S_Inline ==
  << "P", "A", "R", "A", "G", "R", "A", "P", "H", ":", " ", "*", "*", "b",
     "*", "*", " ", "*", "i", "*", " ", "{", "r", "e", "d", ":", "t", "}",
     " ", "u", "\n", "m", "o", "r", "e", " ", "t", "e", "x", "t" >>

\* a paragraph whose text is a pair of braces
S_Braces ==
  << "P", "A", "R", "A", "G", "R", "A", "P", "H", ":", " ", "{", "}" >>

\* CRLF and CR line terminators
S_CRLF ==
  << "H", "1", ":", " ", "T", "\r", "\n", "P", "A", "R", "A", "G", "R",
     "A", "P", "H", ":", " ", "a", "\r", "b", "\r", "\n", "\r", "\n", "c" >>

\* blocks without content
S_Empty ==
  << "T", "A", "B", "L", "E", ":", "\n", "B", "U", "L", "L", "E", "T", ":",
     "\n", "N", "U", "M", "B", "E", "R", "E", "D", ":", "\n", "P", "A",
     "R", "A", "G", "R", "A", "P", "H", ":", "\n", "C", "O", "D", "E", ":",
     "\n", "H", "3", ":" >>

\* characters that html.escape rewrites
S_Escape ==
  << "H", "1", ":", " ", "a", "<", "b", "\n", "C", "O", "D", "E", ":",
     "\n", " ", " ", "x", " ", "&", " ", "\"", "y", "\"", "\n", "T", "A",
     "B", "L", "E", ":", "\n", "|", " ", "<", "i", ">", " ", "|", " ", "'",
     "q", "'", " ", "|" >>

\* headings, a table of contents between them and footnotes
S_Headings ==
  << "H", "1", ":", " ", "A", "\n", "S", "U", "B", "H", "E", "A", "D", "I",
     "N", "G", ":", " ", "B", "\n", "T", "O", "C", ":", "\n", "H", "3",
     ":", " ", "C", "\n", "F", "O", "O", "T", "N", "O", "T", "E", ":", " ",
     "f", "\n", "F", "O", "O", "T", "N", "O", "T", "E", ":", " ", "g" >>

\* markers only the DocumentBuilder knows
S_Callouts ==
  << "Q", "U", "O", "T", "E", ":", " ", "q", "\n", "N", "O", "T", "E", ":",
     " ", "n", "\n", "L", "I", "N", "K", ":", " ", "\"", "t", "\"", "|",
     "u", "\n", "I", "M", "A", "G", "E", ":", " ", "p", "|", "c", "|", "r",
     "i", "g", "h", "t" >>

\* unmarked lines the DocumentBuilder classifies by their shape
S_Fallbacks ==
  << " ", " ", "-", " ", "b", "\n", "1", ".", " ", "c", "\n", "d", "e",
     "f", " ", "f", "\n", "C", "E", "N", "T", "E", "R", ":", " ", "*", "i",
     "*", " ", "*", "*", "b", "*", "*", " ", "{", "h", "1", ":", "x", "}",
     " ", "{", ":", "a", ":", "b", "}" >>

\* an unmarked line of forty characters or more
S_LongLine ==
  << "a", "n", " ", "u", "n", "m", "a", "r", "k", "e", "d", " ", "l", "i",
     "n", "e", " ", "o", "f", " ", "a", "t", " ", "l", "e", "a", "s", "t",
     " ", "f", "o", "r", "t", "y", " ", "c", "h", "a", "r", "a", "c", "t",
     "e", "r", "s" >>

\* a table with a header row and three body rows
S_Striped ==
  << "T", "A", "B", "L", "E", ":", " ", "|", " ", "h", " ", "|", " ", "k",
     " ", "|", "\n", "|", " ", "1", " ", "|", " ", "2", " ", "|", "\n",
     "|", " ", "3", " ", "|", " ", "4", " ", "|", "\n", "|", " ", "5", " ",
     "|", " ", "6", " ", "|" >>

\* a paragraph whose text is itself a marker line
S_Nested ==
  << "P", "A", "R", "A", "G", "R", "A", "P", "H", ":", " ", "H", "1", ":",
     " ", "x", "\n", "H", "2", ":", " ", "y" >>

\* blocks that each render to one line of Markdown
S_OneLine ==
  << "H", "1", ":", " ", "T", "\n", "B", "U", "L", "L", "E", "T", ":",
     "\n", "-", " ", "a", "\n", "N", "U", "M", "B", "E", "R", "E", "D",
     ":", "\n", "1", ".", " ", "b", "\n", "P", "A", "R", "A", "G", "R",
     "A", "P", "H", ":", " ", "c", "\n", " ", " ", "d" >>

\* lines that more than one rule of classify_line matches
S_Priority ==
  << "H", "1", ":", " ", "a", "|", "b", "\n", "-", " ", "a", "|", "b", "\n",
     "-", " ", "U+2500", "\n", "d", "e", "f", " ", "U+2500", "\n", "F", "O",
     "O", ":", " ", "-", " ", "x", "\n", "1", ".", " ", "U+2500", "\n", "i",
     "m", "p", "o", "r", "t", " ", "a", "a", "a", "a", "a", "a", "a", "a",
     "a", "a", "a", "a", "a", "a", "a", "a", "a", "a", "a", "a", "a", "a",
     "a", "a", "a", "a", "a", "a", "a", "a", "a", "a", "a", "a", "\n",
     "U+2500", " ", "b", "b", "b", "b", "b", "b", "b", "b", "b", "b", "b",
     "b", "b", "b", "b", "b", "b", "b", "b", "b", "b", "b", "b", "b", "b",
     "b", "b", "b", "b", "b", "b", "b", "b", "b", "b", "b", "b", "b", "b" >>

\* marker names written in lower and mixed case
S_LowerCase ==
  << "h", "1", ":", " ", "T", "i", "t", "l", "e", "\n", "T", "a", "b", "l",
     "e", ":", "\n", "|", " ", "a", " ", "|", " ", "b", " ", "|", "\n", "b",
     "u", "l", "l", "e", "t", ":", " ", "x", "\n", "C", "o", "d", "e", ":",
     " ", "y" >>

\* one text with LF, with CRLF and with CR as its line terminator
S_TermLF ==
  << "H", "1", ":", " ", "T", "\n", "-", " ", "x", "\n", "a", " ", "|",
     " ", "b" >>

S_TermCRLF ==
  << "H", "1", ":", " ", "T", "\r", "\n", "-", " ", "x", "\r", "\n", "a",
     " ", "|", " ", "b" >>

S_TermCR ==
  << "H", "1", ":", " ", "T", "\r", "-", " ", "x", "\r", "a", " ", "|",
     " ", "b" >>

Scenarios ==
  { S_TermLF,
    S_TermCRLF,
    S_TermCR,
    S_LowerCase,
    S_Priority,
    S_Headings,
    S_Callouts,
    S_Fallbacks,
    S_LongLine,
    S_Striped,
    S_Nested,
    S_OneLine,
    S_Structure,
    S_Table,
    S_TableCaption,
    S_Stray,
    S_Code,
    S_CodeBlanks,
    S_CodeLeading,
    S_TableRows,
    S_Lists,
    S_Inline,
    S_Braces,
    S_CRLF,
    S_Empty,
    S_Escape }

\* the texts of at most n vocabulary lines, joined with "\n"
RECURSIVE TextsOf(_)
TextsOf(n_) ==
  CHOOSE result \in {
    IF n = 0 THEN { << >> }
    ELSE IF n = 1 THEN Vocabulary
    ELSE TextsOf(n - 1)
         \cup { t \o << "\n" >> \o l : t \in TextsOf(n - 1), l \in Vocabulary }
    : n \in {n_} } : TRUE

Inputs == TextsOf(MaxLines) \cup Scenarios

\* ------------------------------------------------------------------------
\* DocumentExporter.create_docx (exporter.py)
\* ------------------------------------------------------------------------

\* a table cell of the written document: fill and color name the
\* configured colour applied, "none" / "default" when none is applied
Cell(txt, b, f, c) == [text |-> txt, bold |-> b, fill |-> f, color |-> c]

Para(k, txt, st) == [kind |-> k, text |-> txt, style |-> st, cells |-> << >>]

Table(cells) == [kind |-> "table", text |-> << >>, style |-> "", cells |-> cells]

\* the body of `for node in nodes` in create_docx: the blocks one node adds
DocxBlocks(node_) ==
  CHOOSE result \in {
    CASE node.type = "heading" ->
           << Para("heading", node.text,
                   "Heading " \o ToString(Max(1, Min(6, node.level)))) >>
      [] node.type = "paragraph" -> << Para("paragraph", node.text, "Normal") >>
      [] node.type = "bullet" ->
           [i \in 1..Len(node.items) |->
              Para("paragraph", node.items[i], "List Bullet")]
      [] node.type = "numbered" ->
           [i \in 1..Len(node.items) |->
              Para("paragraph", node.items[i], "List Number")]
      [] node.type = "code" -> << Para("paragraph", node.text, "Code") >>
      [] node.type = "table" ->
           IF node.rows = << >> THEN << >>
           ELSE LET cols == Len(node.rows[1])
                IN  << Table([r \in 1..Len(node.rows) |->
                               [c \in 1..cols |->
                                  Cell(IF c <= Len(node.rows[r])
                                         THEN node.rows[r][c] ELSE << >>,
                                       r = 1, "none", "default")]]) >>
      [] OTHER -> << >>
    : node \in {node_} } : TRUE

RECURSIVE DocxAll(_)
DocxAll(ns_) ==
  CHOOSE result \in {
    IF ns = << >> THEN << >> ELSE DocxBlocks(Head(ns)) \o DocxAll(Tail(ns))
    : ns \in {ns_} } : TRUE

\* create_docx(nodes, theme, formatting, security) without a watermark
create_docx(ns_) ==
  CHOOSE result \in {
      DocxAll(ns)
    : ns \in {ns_} } : TRUE

\* ------------------------------------------------------------------------
\* backend/Core.py: TextParser
\* ------------------------------------------------------------------------

\* TextParser.MARKERS: the marker names and the element type of each
MARKERS ==
  << [chars |-> << "H", "E", "A", "D", "I", "N", "G" >>,
      type |-> "h1"],
     [chars |-> << "H", "1" >>,
      type |-> "h1"],
     [chars |-> << "S", "U", "B", "H", "E", "A", "D", "I", "N", "G" >>,
      type |-> "h2"],
     [chars |-> << "H", "2" >>,
      type |-> "h2"],
     [chars |-> << "S", "U", "B", "-", "S", "U", "B", "H", "E", "A", "D",
                   "I", "N", "G" >>,
      type |-> "h3"],
     [chars |-> << "H", "3" >>,
      type |-> "h3"],
     [chars |-> << "H", "4" >>,
      type |-> "h4"],
     [chars |-> << "H", "5" >>,
      type |-> "h5"],
     [chars |-> << "H", "6" >>,
      type |-> "h6"],
     [chars |-> << "P", "A", "R", "A", "G", "R", "A", "P", "H" >>,
      type |-> "paragraph"],
     [chars |-> << "P", "A", "R", "A" >>,
      type |-> "paragraph"],
     [chars |-> << "C", "E", "N", "T", "E", "R" >>,
      type |-> "paragraph_center"],
     [chars |-> << "R", "I", "G", "H", "T" >>,
      type |-> "paragraph_right"],
     [chars |-> << "B", "U", "L", "L", "E", "T" >>,
      type |-> "bullet"],
     [chars |-> << "N", "U", "M", "B", "E", "R", "E", "D" >>,
      type |-> "numbered"],
     [chars |-> << "C", "O", "D", "E" >>,
      type |-> "code"],
     [chars |-> << "T", "A", "B", "L", "E" >>,
      type |-> "table"],
     [chars |-> << "A", "S", "C", "I", "I" >>,
      type |-> "ascii"],
     [chars |-> << "D", "I", "A", "G", "R", "A", "M" >>,
      type |-> "ascii"],
     [chars |-> << "Q", "U", "O", "T", "E" >>,
      type |-> "quote"],
     [chars |-> << "N", "O", "T", "E" >>,
      type |-> "note"],
     [chars |-> << "I", "M", "P", "O", "R", "T", "A", "N", "T" >>,
      type |-> "note"],
     [chars |-> << "I", "M", "A", "G", "E" >>,
      type |-> "image"],
     [chars |-> << "L", "I", "N", "K" >>,
      type |-> "link"],
     [chars |-> << "H", "I", "G", "H", "L", "I", "G", "H", "T" >>,
      type |-> "highlight"],
     [chars |-> << "F", "O", "O", "T", "N", "O", "T", "E" >>,
      type |-> "footnote"],
     [chars |-> << "T", "O", "C" >>,
      type |-> "toc"],
     [chars |-> << "W", "A", "T", "E", "R", "M", "A", "R", "K" >>,
      type |-> "watermark"] >>

\* code_starts of classify_line
code_starts ==
  { << "d", "e", "f", " " >>,
    << "c", "l", "a", "s", "s", " " >>,
    << "f", "u", "n", "c", "t", "i", "o", "n", " " >>,
    << "v", "a", "r", " " >>,
    << "l", "e", "t", " " >>,
    << "c", "o", "n", "s", "t", " " >>,
    << "i", "m", "p", "o", "r", "t", " " >>,
    << "f", "r", "o", "m", " " >>,
    << "i", "f", " " >>,
    << "f", "o", "r", " " >>,
    << "w", "h", "i", "l", "e", " " >>,
    << "r", "e", "t", "u", "r", "n", " " >>,
    << "p", "r", "i", "n", "t", "(" >>,
    << "#", "i", "n", "c", "l", "u", "d", "e" >>,
    << "p", "u", "b", "l", "i", "c", " " >>,
    << "p", "r", "i", "v", "a", "t", "e", " " >> }

\* the box-drawing characters of ascii_chars, named by code point
ascii_chars ==
  { "U+2500", "U+2502", "U+250C", "U+2510", "U+2514", "U+2518", "U+251C",
    "U+2524", "U+252C", "U+2534", "U+253C", "U+2554", "U+2557", "U+255A",
    "U+255D", "U+2550", "U+2551" }

\* [-*•] of the bullet fallback; the last is U+2022
BulletGlyphs == { "-", "*", "U+2022" }

UpperSet == { UpperChars[i] : i \in 1..26 }

\* [A-Z0-9\-]
MarkerNameChars == UpperSet \cup Digits \cup { "-" }

\* the length of the longest prefix of s whose characters are all in S:
\* what a greedy S* at the start of s consumes
PrefixLen(s_, S_) ==
  CHOOSE result \in {
    IF \A i \in 1..Len(s) : s[i] \in S THEN Len(s)
    ELSE (CHOOSE i \in 1..Len(s) :
            /\ s[i] \notin S
            /\ \A j \in 1..(i-1) : s[j] \in S) - 1
    : s \in {s_}, S \in {S_} } : TRUE

NoCoreMatch == [ok |-> FALSE, marker |-> << >>, content |-> << >>]

\* re.match(r"^([A-Z][A-Z0-9\-]*):\s*(.*)$", s) for an s without "\n":
\* the name is the whole run of name characters, which ":" must follow
CoreMarkerMatch(s_) ==
  CHOOSE result \in {
    LET n == PrefixLen(s, MarkerNameChars)
    IN  IF /\ s # << >>
           /\ s[1] \in UpperSet
           /\ n < Len(s)
           /\ s[n + 1] = ":"
          THEN [ok |-> TRUE, marker |-> SubSeq(s, 1, n),
                content |-> LStrip(SubSeq(s, n + 2, Len(s)))]
          ELSE NoCoreMatch
    : s \in {s_} } : TRUE

\* self.MARKERS.get(marker, "text")
MarkerType(marker_) ==
  CHOOSE result \in {
    IF \E k \in 1..Len(MARKERS) : MARKERS[k].chars = marker
      THEN MARKERS[CHOOSE k \in 1..Len(MARKERS) : MARKERS[k].chars = marker].type
      ELSE "text"
    : marker \in {marker_} } : TRUE

\* re.match(r"^(\s*)([-*•])\s+(.+)$", line) for a line without "\n":
\* \s+ takes the whole run of whitespace after the glyph, and gives its
\* last character back to (.+) when nothing follows the run
BulletMatch(line_) ==
  CHOOSE result \in {
    LET n == PrefixLen(line, WS)
        rest == SubSeq(line, n + 2, Len(line))
        w == PrefixLen(rest, WS)
    IN  IF n < Len(line) /\ line[n + 1] \in BulletGlyphs /\ w >= 1
          THEN IF w < Len(rest)
                 THEN [ok |-> TRUE, indent |-> n,
                       content |-> SubSeq(rest, w + 1, Len(rest))]
               ELSE IF w >= 2
                 THEN [ok |-> TRUE, indent |-> n, content |-> << rest[w] >>]
               ELSE [ok |-> FALSE, indent |-> 0, content |-> << >>]
          ELSE [ok |-> FALSE, indent |-> 0, content |-> << >>]
    : line \in {line_} } : TRUE

\* re.match(r"^\s*\d+[.)]\s+", stripped)
NumberedMatch(stripped_) ==
  CHOOSE result \in {
    LET n == PrefixLen(stripped, WS)
        rest == SubSeq(stripped, n + 1, Len(stripped))
        d == PrefixLen(rest, Digits)
    IN  /\ d >= 1
        /\ Len(rest) >= d + 2
        /\ rest[d + 1] \in { ".", ")" }
        /\ rest[d + 2] \in WS
    : stripped \in {stripped_} } : TRUE

\* len(stripped.strip()) >= 40
ParagraphMinLen == 40

Classified(t, c, lvl) == [type |-> t, content |-> c, indent_level |-> lvl]

\* classify_line with the bullet fallback tried before the table rule
ClassifyStripped_BulletFirst(line_, stripped_, s_) ==
  CHOOSE result \in {
    LET m == CoreMarkerMatch(s)
        bm == BulletMatch(line)
    IN  IF s = << >> THEN Classified("empty", << >>, 0)
        ELSE IF m.ok
          THEN Classified(MarkerType(m.marker), Strip(m.content),
                          PrefixLen(line, WS) \div 2)
        ELSE IF bm.ok
          THEN Classified("bullet", bm.content, bm.indent \div 2)
        ELSE IF \E i \in 1..Len(stripped) : stripped[i] = "|"
          THEN Classified("table", stripped, 0)
        ELSE IF NumberedMatch(stripped)
          THEN Classified("numbered", s, 0)
        ELSE IF \E kw \in code_starts : StartsWith(s, kw)
          THEN Classified("code", s, 0)
        ELSE IF \E i \in 1..Len(stripped) : stripped[i] \in ascii_chars
          THEN Classified("ascii", stripped, 0)
        ELSE IF Len(s) >= ParagraphMinLen
          THEN Classified("paragraph", s, 0)
        ELSE Classified("text", s, 0)
    : line \in {line_}, stripped \in {stripped_}, s \in {s_} } : TRUE

\* the tests of classify_line, given stripped = line.rstrip("\n") and
\* s = stripped.strip(); indent_level is 0 where the dict has no such key,
\* as build reads it with classified.get("indent_level", 0)
ClassifyStripped(line_, stripped_, s_) ==
  CHOOSE result \in {
    LET m == CoreMarkerMatch(s)
        bm == BulletMatch(line)
    IN  IF s = << >> THEN Classified("empty", << >>, 0)
        ELSE IF m.ok
          THEN Classified(MarkerType(m.marker), Strip(m.content),
                          PrefixLen(line, WS) \div 2)
        ELSE IF \E i \in 1..Len(stripped) : stripped[i] = "|"
          THEN Classified("table", stripped, 0)
        ELSE IF bm.ok
          THEN Classified("bullet", bm.content, bm.indent \div 2)
        ELSE IF NumberedMatch(stripped)
          THEN Classified("numbered", s, 0)
        ELSE IF \E kw \in code_starts : StartsWith(s, kw)
          THEN Classified("code", s, 0)
        ELSE IF \E i \in 1..Len(stripped) : stripped[i] \in ascii_chars
          THEN Classified("ascii", stripped, 0)
        ELSE IF Len(s) >= ParagraphMinLen
          THEN Classified("paragraph", s, 0)
        ELSE Classified("text", s, 0)
    : line \in {line_}, stripped \in {stripped_}, s \in {s_} } : TRUE

\* TextParser.classify_line(line), for the lines of text.split("\n")
classify_line(line_) ==
  CHOOSE result \in {
      ClassifyStripped(line, RStripSet(line, { "\n" }),
                       Strip(RStripSet(line, { "\n" })))
    : line \in {line_} } : TRUE

\* ------------------------------------------------------------------------
\* backend/Core.py: DocumentBuilder
\* ------------------------------------------------------------------------

\* the keys of AppConfig.colors
ConfigColors ==
  << [chars |-> << "h", "1" >>, key |-> "h1"],
     [chars |-> << "h", "2" >>, key |-> "h2"],
     [chars |-> << "h", "3" >>, key |-> "h3"],
     [chars |-> << "h", "4" >>, key |-> "h4"],
     [chars |-> << "h", "5" >>, key |-> "h5"],
     [chars |-> << "h", "6" >>, key |-> "h6"],
     [chars |-> << "b", "o", "d", "y" >>, key |-> "body"],
     [chars |-> << "c", "o", "d", "e", "_", "b", "a", "c", "k", "g", "r",
                   "o", "u", "n", "d" >>, key |-> "code_background"],
     [chars |-> << "c", "o", "d", "e", "_", "t", "e", "x", "t" >>,
      key |-> "code_text"],
     [chars |-> << "t", "a", "b", "l", "e", "_", "h", "e", "a", "d", "e",
                   "r", "_", "b", "g" >>, key |-> "table_header_bg"],
     [chars |-> << "t", "a", "b", "l", "e", "_", "h", "e", "a", "d", "e",
                   "r", "_", "t", "e", "x", "t" >>,
      key |-> "table_header_text"],
     [chars |-> << "t", "a", "b", "l", "e", "_", "o", "d", "d", "_", "r",
                   "o", "w" >>, key |-> "table_odd_row"],
     [chars |-> << "t", "a", "b", "l", "e", "_", "e", "v", "e", "n", "_",
                   "r", "o", "w" >>, key |-> "table_even_row"],
     [chars |-> << "t", "a", "b", "l", "e", "_", "b", "o", "r", "d", "e",
                   "r" >>, key |-> "table_border"],
     [chars |-> << "l", "i", "n", "k" >>, key |-> "link"] >>

\* the colour a {name:text} span receives: config.colors[name] when the
\* name is a key, no colour ("default") otherwise
NamedColor(name_) ==
  CHOOSE result \in {
    IF \E k \in 1..Len(ConfigColors) : ConfigColors[k].chars = name
      THEN ConfigColors[CHOOSE k \in 1..Len(ConfigColors) :
                          ConfigColors[k].chars = name].key
      ELSE "default"
    : name \in {name_} } : TRUE

\* the number of characters from s[from] on that are not in Stop: what a
\* greedy [^...]* consumes there
RunLen(s_, from_, Stop_) ==
  CHOOSE result \in {
    IF \A i \in from..Len(s) : s[i] \notin Stop THEN Max(0, Len(s) - from + 1)
    ELSE (CHOOSE i \in from..Len(s) :
            /\ s[i] \in Stop
            /\ \A j \in from..(i-1) : s[j] \notin Stop) - from
    : s \in {s_}, from \in {from_}, Stop \in {Stop_} } : TRUE

\* (\*\*[^*]+\*\*|\*[^*]+\*|\{[^}]+:[^}]+\}) tried at s[p]: the index of
\* the last character matched, 0 when no alternative matches there
InlineMatchEnd(s_, p_) ==
  CHOOSE result \in {
    LET c(i) == IF i <= Len(s) THEN s[i] ELSE ""
        n1 == RunLen(s, p + 2, { "*" })
        n2 == RunLen(s, p + 1, { "*" })
        n3 == RunLen(s, p + 1, { "}" })
    IN  IF /\ c(p) = "*" /\ c(p + 1) = "*" /\ n1 >= 1
           /\ c(p + 2 + n1) = "*" /\ c(p + 3 + n1) = "*"
          THEN p + 3 + n1
        ELSE IF c(p) = "*" /\ n2 >= 1 /\ c(p + 1 + n2) = "*"
          THEN p + 1 + n2
        ELSE IF /\ c(p) = "{" /\ c(p + 1 + n3) = "}"
                /\ \E j \in (p + 2)..(p + n3 - 1) : s[j] = ":"
          THEN p + 1 + n3
        ELSE 0
    : s \in {s_}, p \in {p_} } : TRUE

\* re.split(r"(\*\*[^*]+\*\*|\*[^*]+\*|\{[^}]+:[^}]+\})", text): the text
\* before each match, the match, and at the end the remaining text
RECURSIVE SplitInline(_)
SplitInline(s_) ==
  CHOOSE result \in {
    IF \A p \in 1..Len(s) : InlineMatchEnd(s, p) = 0 THEN << s >>
    ELSE LET p == CHOOSE q \in 1..Len(s) :
                    /\ InlineMatchEnd(s, q) > 0
                    /\ \A r \in 1..(q-1) : InlineMatchEnd(s, r) = 0
             e == InlineMatchEnd(s, p)
         IN  << SubSeq(s, 1, p - 1), SubSeq(s, p, e) >>
             \o SplitInline(SubSeq(s, e + 1, Len(s)))
    : s \in {s_} } : TRUE

\* re.match(r"\{([^:]+):([^}]+)\}", part)
ColorMatch(part_) ==
  CHOOSE result \in {
    LET c(i) == IF i <= Len(part) THEN part[i] ELSE ""
        a == RunLen(part, 2, { ":" })
        b == RunLen(part, 3 + a, { "}" })
    IN  IF /\ c(1) = "{" /\ a >= 1 /\ c(2 + a) = ":"
           /\ b >= 1 /\ c(3 + a + b) = "}"
          THEN [ok |-> TRUE, color_name |-> SubSeq(part, 2, 1 + a),
                text_part |-> SubSeq(part, 3 + a, 2 + a + b)]
          ELSE [ok |-> FALSE, color_name |-> << >>, text_part |-> << >>]
    : part \in {part_} } : TRUE

\* a run of a paragraph: font and color name the configured font and
\* colour set on it, "default" when none is set
Run(txt, b, i, u, f, c) ==
  [text |-> txt, bold |-> b, italic |-> i, underline |-> u,
   font |-> f, color |-> c]

\* the state of `for part in parts` in _add_paragraph: the runs added,
\* whether the local `run` is bound, and whether the loop has raised
\* UnboundLocalError at `run.font.name = body_family`
RECURSIVE InlineRuns(_, _, _)
InlineRuns(parts_, runs_, bound_) ==
  CHOOSE result \in {
    IF parts = << >> THEN [runs |-> runs, raised |-> FALSE]
    ELSE
      LET part == Head(parts)
          rest == Tail(parts)
          styled == part \notin { << "*", "*" >>, << "*" >>, << "{" >>, << "}" >> }
          font == IF styled THEN "body" ELSE "default"
          cm == ColorMatch(part)
      IN  IF part = << >> THEN InlineRuns(rest, runs, bound)
          ELSE IF StartsWith(part, << "*", "*" >>) /\ EndsWith(part, << "*", "*" >>)
            THEN InlineRuns(rest,
                   Append(runs, Run(SubSeq(part, 3, Len(part) - 2), TRUE, FALSE,
                                    FALSE, font,
                                    IF styled THEN "body" ELSE "default")),
                   TRUE)
          ELSE IF StartsWith(part, << "*" >>) /\ EndsWith(part, << "*" >>)
            THEN InlineRuns(rest,
                   Append(runs, Run(SubSeq(part, 2, Len(part) - 1), FALSE, TRUE,
                                    FALSE, font,
                                    IF styled THEN "body" ELSE "default")),
                   TRUE)
          ELSE IF StartsWith(part, << "{" >>) /\ EndsWith(part, << "}" >>)
            THEN IF cm.ok
                   THEN InlineRuns(rest,
                          Append(runs, Run(cm.text_part, FALSE, FALSE, FALSE,
                                           "body", NamedColor(cm.color_name))),
                          TRUE)
                 ELSE IF bound
                   \* `run` is still the run of an earlier part, which
                   \* receives the body font; the span adds nothing
                   THEN InlineRuns(rest,
                          [runs EXCEPT ![Len(runs)].font = "body"], TRUE)
                 ELSE [runs |-> runs, raised |-> TRUE]
          ELSE InlineRuns(rest,
                 Append(runs, Run(part, FALSE, FALSE, FALSE, font,
                                  IF styled /\ ~StartsWith(part, << "{" >>)
                                    THEN "body" ELSE "default")),
                 TRUE)
    : parts \in {parts_}, runs \in {runs_}, bound \in {bound_} } : TRUE

\* a block of the built document: a paragraph with its runs, or a table
\* with its cells; level is the heading level or the list nesting level,
\* fill the configured colour of the paragraph's shading
Block(k, st, al, lvl, rs, f) ==
  [kind |-> k, style |-> st, alignment |-> al, level |-> lvl, runs |-> rs,
   fill |-> f, cells |-> << >>]

DocTable(cs) ==
  [kind |-> "table", style |-> "Table Grid", alignment |-> "", level |-> 0,
   runs |-> << >>, fill |-> "none", cells |-> cs]

\* Document.add_paragraph(text, style) and add_heading(text, level) add
\* one run, and none for an empty text
TextRuns(txt, f, c) ==
  IF txt = << >> THEN << >>
  ELSE << Run(txt, FALSE, FALSE, FALSE, f, c) >>

\* _get_alignment(align): the member of WD_ALIGN, LEFT for any other name
_get_alignment(align_) ==
  CHOOSE result \in {
    IF align = << "c", "e", "n", "t", "e", "r" >> THEN "center"
    ELSE IF align = << "r", "i", "g", "h", "t" >> THEN "right"
    ELSE "left"
    : align \in {align_} } : TRUE

HeadingKeys == << "h1", "h2", "h3", "h4", "h5", "h6" >>

\* _add_heading(text, level): the paragraph added
_add_heading(text_, level_) ==
  CHOOSE result \in {
    << Block("paragraph", "Heading " \o ToString(level), "", level,
             TextRuns(text, "heading", HeadingKeys[level]), "none") >>
    : text \in {text_}, level \in {level_} } : TRUE

\* _add_paragraph(text, alignment): the paragraph added, or raised
_add_paragraph(text_, alignment_) ==
  CHOOSE result \in {
    LET r == InlineRuns(SplitInline(text), << >>, FALSE)
    IN  [raised |-> r.raised,
         blocks |-> << Block("paragraph", "Normal", _get_alignment(alignment),
                             0, r.runs, "none") >>]
    : text \in {text_}, alignment \in {alignment_} } : TRUE

_add_bullet(text_, level_) ==
  CHOOSE result \in {
    << Block("paragraph", "List Bullet", "", level,
             TextRuns(text, "bullet", "body"), "none") >>
    : text \in {text_}, level \in {level_} } : TRUE

_add_numbered(text_) ==
  CHOOSE result \in {
    << Block("paragraph", "List Number", "", 0,
             TextRuns(text, "bullet", "body"), "none") >>
    : text \in {text_} } : TRUE

_add_code(text_) ==
  CHOOSE result \in {
    << Block("paragraph", "Normal", "", 0,
             << Run(text, FALSE, FALSE, FALSE, "code", "code_text") >>,
             "code_background") >>
    : text \in {text_} } : TRUE

_add_quote(text_) ==
  CHOOSE result \in {
    << Block("paragraph", "Quote", "", 0,
             << Run(<< "\"" >> \o text \o << "\"" >>, FALSE, TRUE, FALSE,
                    "default", "default") >>, "none") >>
    : text \in {text_} } : TRUE

\* the memo emoji U+1F4DD and a space, then the text in bold
_add_note(text_) ==
  CHOOSE result \in {
    << Block("paragraph", "Normal", "", 0,
             << Run(<< "U+1F4DD", " " >>, FALSE, FALSE, FALSE,
                    "default", "default"),
                Run(text, TRUE, FALSE, FALSE, "default", "default") >>,
             "none") >>
    : text \in {text_} } : TRUE

_add_ascii(text_) ==
  CHOOSE result \in {
    << Block("paragraph", "Normal", "", 0,
             << Run(text, FALSE, FALSE, FALSE, "Courier New", "default") >>,
             "none") >>
    : text \in {text_} } : TRUE

\* _add_table(rows): the table, ncols wide, and the empty paragraph after
\* it; a cell the row does not supply keeps the table's defaults
_add_table(rows_) ==
  CHOOSE result \in {
    LET ncols == CHOOSE n \in { Len(rows[r]) : r \in 1..Len(rows) } :
                   \A r \in 1..Len(rows) : Len(rows[r]) <= n
    IN  IF rows = << >> \/ ncols = 0 THEN << >>
        ELSE << DocTable(
                  [ri \in 1..Len(rows) |->
                     [ci \in 1..ncols |->
                        IF ci > Len(rows[ri])
                          THEN Cell(<< >>, FALSE, "none", "default")
                        ELSE IF ri = 1
                          THEN Cell(Strip(rows[ri][ci]), TRUE,
                                    "table_header_bg", "table_header_text")
                        ELSE IF (ri - 1) % 2 = 1
                          THEN Cell(Strip(rows[ri][ci]), FALSE,
                                    "table_odd_row", "default")
                        ELSE Cell(Strip(rows[ri][ci]), FALSE,
                                  "table_even_row", "default")]]),
                Block("paragraph", "Normal", "", 0, << >>, "none") >>
    : rows \in {rows_} } : TRUE

\* _add_image(image_path, caption, alignment): nothing when the file is
\* missing; otherwise the paragraph added before p.add_picture, which a
\* Paragraph does not have, raises AttributeError into the except clause
_add_image(exists_, alignment_) ==
  CHOOSE result \in {
    IF exists
      THEN << Block("paragraph", "Normal", _get_alignment(alignment), 0,
                    << >>, "none") >>
      ELSE << >>
    : exists \in {exists_}, alignment \in {alignment_} } : TRUE

_add_link(link_text_) ==
  CHOOSE result \in {
    << Block("paragraph", "Normal", "", 0,
             << Run(link_text, FALSE, FALSE, TRUE, "default", "link") >>,
             "none") >>
    : link_text \in {link_text_} } : TRUE

\* _add_footnote(text) once the counter has been incremented to n
_add_footnote(text_, n_) ==
  CHOOSE result \in {
    << Block("paragraph", "Normal", "", 0,
             << Run(<< "[" >> \o Decimal(n) \o << "]", " " >> \o text,
                    FALSE, FALSE, FALSE, "default", "default") >>,
             "none") >>
    : text \in {text_}, n \in {n_} } : TRUE

TocTitle ==
  << "T", "a", "b", "l", "e", " ", "o", "f", " ", "C", "o", "n", "t", "e",
     "n", "t", "s" >>

\* _add_toc(): the title and one entry for each heading added so far
_add_toc(headings_) ==
  CHOOSE result \in {
    << Block("paragraph", "Heading 1", "", 0,
             << Run(TocTitle, FALSE, FALSE, FALSE, "default", "default") >>,
             "none") >>
    \o [h \in 1..Len(headings) |->
          Block("paragraph", "List Bullet", "", headings[h].level,
                TextRuns(headings[h].text, "default", "default"), "none")]
    : headings \in {headings_} } : TRUE

HeadingLevels == [t \in { "h1", "h2", "h3", "h4", "h5", "h6" } |->
  CASE t = "h1" -> 1 [] t = "h2" -> 2 [] t = "h3" -> 3
    [] t = "h4" -> 4 [] t = "h5" -> 5 [] t = "h6" -> 6]

\* the index (1-based) of the last line of the run of "table" lines that
\* follows lines[i]: where `while i < len(lines)` of the table branch stops
RECURSIVE TableEnd(_, _)
TableEnd(lines_, i_) ==
  CHOOSE result \in {
    IF i < Len(lines) /\ classify_line(lines[i + 1]).type = "table"
      THEN TableEnd(lines, i + 1)
      ELSE i
    : lines \in {lines_}, i \in {i_} } : TRUE

\* parts[k].strip().strip('"') of content.split("|"), 0-based k
QuotedPart(parts_, k_) ==
  CHOOSE result \in {
      StripSet(Strip(parts[k + 1]), { "\"" })
    : parts \in {parts_}, k \in {k_} } : TRUE

\* one iteration of `while i < len(lines)` in build, at lines[i] (1-based)
\* with classified = parser.classify_line(lines[i]): the blocks it adds,
\* whether it raised, and the cursor after it
BuildStep(classified_, lines_, i_, headings_, footnotes_, exists_) ==
  CHOOSE result \in {
    LET t == classified.type
        content == classified.content
        parts == Split(content, "|")
        Added(bs, hs, fn, nxt) ==
          [raised |-> FALSE, blocks |-> bs, headings |-> hs,
           footnotes |-> fn, next |-> nxt]
        Same(bs) == Added(bs, headings, footnotes, i + 1)
    IN  CASE t \in DOMAIN HeadingLevels ->
               Added(_add_heading(content, HeadingLevels[t]),
                     Append(headings,
                            [level |-> HeadingLevels[t], text |-> content]),
                     footnotes, i + 1)
          [] t \in { "paragraph", "paragraph_center", "paragraph_right" } ->
               LET p == _add_paragraph(content,
                          CASE t = "paragraph" -> << "l", "e", "f", "t" >>
                            [] t = "paragraph_center" ->
                                 << "c", "e", "n", "t", "e", "r" >>
                            [] t = "paragraph_right" ->
                                 << "r", "i", "g", "h", "t" >>)
               IN  [raised |-> p.raised, blocks |-> p.blocks,
                    headings |-> headings, footnotes |-> footnotes,
                    next |-> i + 1]
          [] t = "bullet" -> Same(_add_bullet(content, classified.indent_level))
          [] t = "numbered" -> Same(_add_numbered(content))
          [] t = "code" -> Same(_add_code(content))
          [] t = "table" ->
               LET last == TableEnd(lines, i)
                   table_rows ==
                     [r \in 1..(last - i + 1) |->
                        Split(classify_line(lines[i + r - 1]).content, "|")]
               IN  Added(_add_table(table_rows), headings, footnotes, last + 1)
          [] t = "quote" -> Same(_add_quote(content))
          [] t = "note" -> Same(_add_note(content))
          [] t = "ascii" -> Same(_add_ascii(content))
          [] t = "image" ->
               Same(_add_image(exists,
                               IF Len(parts) > 2 THEN QuotedPart(parts, 2)
                               ELSE << "c", "e", "n", "t", "e", "r" >>))
          [] t = "link" -> Same(_add_link(QuotedPart(parts, 0)))
          [] t = "footnote" ->
               Added(_add_footnote(content, footnotes + 1), headings,
                     footnotes + 1, i + 1)
          [] t = "toc" -> Same(_add_toc(headings))
          \* "empty", and the types no branch handles: "text", "highlight",
          \* "watermark"
          [] OTHER -> Same(<< >>)
    : classified \in {classified_}, lines \in {lines_}, i \in {i_},
      headings \in {headings_},
      footnotes \in {footnotes_}, exists \in {exists_} } : TRUE

\* build's outcome; classified is history: the results of
\* parser.classify_line for the lines build reached, in order
Built(st, err, bs, hs, fn, cl) ==
  [status |-> st, error |-> err, blocks |-> bs, headings |-> hs,
   footnotes |-> fn, classified |-> cl]

\* the classifications of lines[i..j]
ClassifiedLines(lines_, i_, j_) ==
  CHOOSE result \in {
      [k \in 1..(j - i + 1) |->
         [line |-> i + k - 1, label |-> classify_line(lines[i + k - 1])]]
    : lines \in {lines_}, i \in {i_}, j \in {j_} } : TRUE

RECURSIVE BuildLoop(_, _, _, _, _, _, _)
BuildLoop(lines_, i_, blocks_, headings_, footnotes_, exists_, classified_) ==
  CHOOSE result \in {
    IF i > Len(lines)
      THEN Built("ok", "", blocks, headings, footnotes, classified)
    ELSE CHOOSE after \in {
           IF st.raised
             THEN Built("raised", "UnboundLocalError", blocks, headings,
                        footnotes,
                        classified \o ClassifiedLines(lines, i, i))
             ELSE BuildLoop(lines, st.next, blocks \o st.blocks,
                            st.headings, st.footnotes, exists,
                            classified
                              \o ClassifiedLines(lines, i, st.next - 1))
           : st \in { BuildStep(classify_line(lines[i]), lines, i, headings,
                                footnotes, exists) } } : TRUE
    : lines \in {lines_}, i \in {i_}, blocks \in {blocks_},
      headings \in {headings_}, footnotes \in {footnotes_},
      exists \in {exists_}, classified \in {classified_} } : TRUE

\* DocumentBuilder.build(text) up to self.doc.save: the body of the
\* document, or the exception raised; exists is os.path.isfile for the
\* paths of the text's IMAGE lines
build(text_, exists_) ==
  CHOOSE result \in {
    IF Strip(text) = << >>
      THEN Built("raised", "ValueError", << >>, << >>, 0, << >>)
      ELSE BuildLoop(Split(text, "\n"), 1, << >>, << >>, 0, exists, << >>)
    : text \in {text_}, exists \in {exists_} } : TRUE

\* ------------------------------------------------------------------------
\* Core.py: the page number expression of a header or footer
\* ------------------------------------------------------------------------

\* a run of the header or footer paragraph: kind is "text" for
\* paragraph.add_run(text), "fldChar" and "instrText" for the elements
\* _append_field appends to an empty run
PageRun(kind, text) == [kind |-> kind, text |-> text]

\* str.lower() on one character
Lower(c_) ==
  CHOOSE result \in {
    IF \E i \in 1..26 : UpperChars[i] = c
      THEN LowerChars[CHOOSE i \in 1..26 : UpperChars[i] = c]
      ELSE c
    : c \in {c_} } : TRUE

\* style_map of _append_field: the switch appended to the field name
style_map ==
  { [style |-> << "a", "r", "a", "b", "i", "c" >>, switch |-> << >>],
    [style |-> << "r", "o", "m", "a", "n" >>,
     switch |-> << " ", "\\", "*", " ", "R", "O", "M", "A", "N" >>],
    [style |-> << "a", "l", "p", "h", "a" >>,
     switch |-> << " ", "\\", "*", " ", "A", "L", "P", "H", "A", "B", "E",
                   "T", "I", "C" >>] }

\* style_map.get((style or "arabic").lower(), "")
field_suffix(style_) ==
  CHOOSE result \in {
    IF \E e \in style_map : e.style = key
      THEN (CHOOSE e \in style_map : e.style = key).switch
      ELSE << >>
    : key \in { IF style_ = << >> THEN << "a", "r", "a", "b", "i", "c" >>
                ELSE [i \in 1..Len(style_) |-> Lower(style_[i])] } } : TRUE

\* _append_field(paragraph, field_name, style): the five runs of a live
\* field, with the placeholder text "1" as its cached result
_append_field(field_name_, style_) ==
  CHOOSE result \in {
    << PageRun("fldChar", << "b", "e", "g", "i", "n" >>),
       PageRun("instrText", field_name \o field_suffix(style)),
       PageRun("fldChar", << "s", "e", "p", "a", "r", "a", "t", "e" >>),
       PageRun("text", << "1" >>),
       PageRun("fldChar", << "e", "n", "d" >>) >>
    : field_name \in {field_name_}, style \in {style_} } : TRUE

\* s has pat at position i, compared without regard to case
MatchesAtCI(s_, i_, pat_) ==
  CHOOSE result \in {
    /\ i + Len(pat) - 1 <= Len(s)
    /\ \A j \in 1..Len(pat) : Upper(s[i + j - 1]) = Upper(pat[j])
    : s \in {s_}, i \in {i_}, pat \in {pat_} } : TRUE

\* re.sub with a pattern that is an alternative of literals under (?i):
\* every match, left to right, is replaced by rep
RECURSIVE SubLiteralsCI(_, _, _)
SubLiteralsCI(s_, pats_, rep_) ==
  CHOOSE result \in {
    LET hits == { i \in 1..Len(s) : \E p \in pats : MatchesAtCI(s, i, p) }
    IN  IF hits = {} THEN s
        ELSE LET i == CHOOSE h \in hits : \A g \in hits : h <= g
                 p == CHOOSE q \in pats : MatchesAtCI(s, i, q)
             IN  SubSeq(s, 1, i - 1) \o rep
                   \o SubLiteralsCI(SubSeq(s, i + Len(p), Len(s)), pats, rep)
    : s \in {s_}, pats \in {pats_}, rep \in {rep_} } : TRUE

\* \w of the re module, for the characters templates are made of
WordChars ==
  { LowerChars[i] : i \in 1..26 } \cup { UpperChars[i] : i \in 1..26 }
    \cup Digits \cup { "_" }

\* the positions token_pattern, (?i)\b([xy])\b, matches in the template
TokenPositions(template_) ==
  CHOOSE result \in {
    { i \in 1..Len(template) :
        /\ Upper(template[i]) \in { "X", "Y" }
        /\ (i = 1 \/ template[i - 1] \notin WordChars)
        /\ (i = Len(template) \/ template[i + 1] \notin WordChars) }
    : template \in {template_} } : TRUE

\* the template _append_page_number_format works on: fmt trimmed, "X" when
\* nothing is left, with the placeholders written as tokens
PageTemplate(fmt_) ==
  CHOOSE result \in {
    SubLiteralsCI(
      SubLiteralsCI(IF Strip(fmt) = << >> THEN << "X" >> ELSE Strip(fmt),
                    { << "{", "p", "a", "g", "e", "}" >> }, << "X" >>),
      { << "{", "p", "a", "g", "e", "s", "}" >>,
        << "{", "t", "o", "t", "a", "l", "}" >> }, << "Y" >>)
    : fmt \in {fmt_} } : TRUE

\* the loop over token_pattern.finditer(template) from position pos on,
\* then the literal text left after the last token
RECURSIVE PageNumberRuns(_, _, _, _)
PageNumberRuns(template_, pos_, tokens_, style_) ==
  CHOOSE result \in {
    LET later == { i \in tokens : i >= pos }
    IN  IF later = {}
          THEN IF pos <= Len(template)
                 THEN << PageRun("text", SubSeq(template, pos, Len(template))) >>
                 ELSE << >>
        ELSE LET start == CHOOSE i \in later : \A j \in later : i <= j
             IN  (IF start > pos
                    THEN << PageRun("text", SubSeq(template, pos, start - 1)) >>
                    ELSE << >>)
                 \o _append_field(IF Upper(template[start]) = "X"
                                    THEN << "P", "A", "G", "E" >>
                                    ELSE << "N", "U", "M", "P", "A", "G", "E",
                                            "S" >>,
                                  style)
                 \o PageNumberRuns(template, start + 1, tokens, style)
    : template \in {template_}, pos \in {pos_}, tokens \in {tokens_},
      style \in {style_} } : TRUE

\* _append_page_number_format without the PAGE field for a template that
\* has no token
_append_page_number_format_NoFallback(fmt_, style_) ==
  CHOOSE result \in {
    PageNumberRuns(template, 1, TokenPositions(template), style)
    : template \in { PageTemplate(fmt_) }, style \in {style_} } : TRUE

\* _append_page_number_format(paragraph, fmt, style): the runs appended
_append_page_number_format(fmt_, style_) ==
  CHOOSE result \in {
    PageNumberRuns(template, 1, TokenPositions(template), style)
      \o (IF TokenPositions(template) = {}
            THEN _append_field(<< "P", "A", "G", "E" >>, style)
            ELSE << >>)
    : template \in { PageTemplate(fmt_) }, style \in {style_} } : TRUE


\* ------------------------------------------------------------------------
\* Core.py and backend_server.py: the configuration of header and footer
\* ------------------------------------------------------------------------

\* the fields of HeaderFooterSettings that decide the page number runs
HeaderFooterSettings(enabled, text, show, position, fmt, style, separator) ==
  [enabled |-> enabled, text |-> text, show_page_numbers |-> show,
   page_number_position |-> position, page_format |-> fmt,
   page_number_style |-> style, separator |-> separator]

CanonicalFormat ==
  << "P", "a", "g", "e", " ", "X", " ", "o", "f", " ", "Y" >>

\* AppConfig(): the header and the footer a new configuration has
AppConfig ==
  [header |->
     HeaderFooterSettings(TRUE,
       << "N", "o", "t", "e", "s", "F", "o", "r", "g", "e", " ", "P", "r",
          "o", "f", "e", "s", "s", "i", "o", "n", "a", "l" >>,
       TRUE, "footer", << "X" >>, << "a", "r", "a", "b", "i", "c" >>, TRUE),
   footer |->
     HeaderFooterSettings(TRUE,
       << "U+00A9", " ", "N", "o", "t", "e", "s", "F", "o", "r", "g", "e" >>,
       TRUE, "footer", CanonicalFormat, << "a", "r", "a", "b", "i", "c" >>,
       TRUE)]

\* the page formats from_dict rewrites
LegacyFormats ==
  { << "X", " ", "|", " ", "P", "a", "g", "e" >>,
    << "X", " ", "|", " ", "P", " ", "a", " ", "g", " ", "e" >> }

\* the header or footer branch of from_dict without the replacement of a
\* legacy page format
SectionFromDict_NoMigration(default_, section_) ==
  CHOOSE result \in {
    set
    : set \in { [k \in DOMAIN default_ |->
                   IF k \in DOMAIN section_ THEN section_[k]
                   ELSE default_[k]] } } : TRUE

\* the header or footer branch of from_dict: the keys of the section are
\* set on the default settings, then a legacy page format is replaced
SectionFromDict(default_, section_) ==
  CHOOSE result \in {
    IF Strip(set.page_format) \in LegacyFormats
      THEN [set EXCEPT !.page_format = CanonicalFormat]
      ELSE set
    : set \in { [k \in DOMAIN default_ |->
                   IF k \in DOMAIN section_ THEN section_[k]
                   ELSE default_[k]] } } : TRUE

\* AppConfig.from_dict(data); data is a function from the sections it has,
\* among "header" and "footer", to the keys each holds
from_dict(data_) ==
  CHOOSE result \in {
    [s \in DOMAIN AppConfig |->
       IF s \in DOMAIN data THEN SectionFromDict(AppConfig[s], data[s])
       ELSE AppConfig[s]]
    : data \in {data_} } : TRUE

\* the runs of the header and of the footer paragraph that
\* _apply_header_footer writes; fonts, colours, margins and the separator
\* rule are left out
_apply_header_footer(config_) ==
  CHOOSE result \in {
    [header |->
       IF ~config.header.enabled THEN << >>
       ELSE << PageRun("text", config.header.text) >>
            \o (IF /\ config.header.show_page_numbers
                   /\ config.header.page_number_position = "header"
                  THEN (IF config.header.text # << >>
                          THEN << PageRun("text", << " ", "|", " " >>) >>
                          ELSE << >>)
                       \o _append_page_number_format(
                            config.header.page_format,
                            config.header.page_number_style)
                  ELSE << >>),
     footer |->
       IF ~config.footer.enabled THEN << >>
       ELSE << PageRun("text", config.footer.text) >>
            \o (IF /\ config.footer.show_page_numbers
                   /\ config.footer.page_number_position = "footer"
                  THEN (IF config.footer.text # << >> /\ config.footer.separator
                          THEN << PageRun("text", << " ", "|", " " >>) >>
                        ELSE IF config.footer.text # << >>
                          THEN << PageRun("text", << " " >>) >>
                        ELSE << >>)
                       \o _append_page_number_format(
                            config.footer.page_format,
                            config.footer.page_number_style)
                  ELSE << >>)]
    : config \in {config_} } : TRUE

\* ------------------------------------------------------------------------
\* The colour parsers: DocumentBuilder._hex_color of Core.py and
\* _hex_to_rgb of app/exporter.py
\* ------------------------------------------------------------------------

\* the hexadecimal digits, each at its value plus one
HexDigits ==
  << "0", "1", "2", "3", "4", "5", "6", "7", "8", "9", "a", "b", "c", "d",
     "e", "f" >>

IsHexDigit(c_) == \E i \in 1..16 : HexDigits[i] = Lower(c_)

HexValue(c_) == (CHOOSE i \in 1..16 : HexDigits[i] = Lower(c_)) - 1

\* int(text, 16) on a slice of two characters or fewer: the whitespace
\* around the number is dropped and a sign is read, and what is left must
\* be hexadecimal digits in either case; anything else raises ValueError
SignedBody(stripped_) ==
  IF Len(stripped_) >= 1 /\ stripped_[1] \in { "+", "-" }
    THEN Tail(stripped_) ELSE stripped_

Int16(text_) ==
  CHOOSE result \in {
    IF Len(body) >= 1 /\ \A i \in 1..Len(body) : IsHexDigit(body[i])
      THEN [raised |-> FALSE,
            value |-> (IF Strip(text_)[1] = "-" THEN -1 ELSE 1)
                      * (IF Len(body) = 1
                           THEN HexValue(body[1])
                           ELSE 16 * HexValue(body[1]) + HexValue(body[2]))]
      ELSE [raised |-> TRUE, value |-> 0]
    : body \in { SignedBody(Strip(text_)) } } : TRUE

\* a colour parser's outcome
Color(by, r, g, b) == [by |-> by, raised |-> FALSE, r |-> r, g |-> g, b |-> b]

\* RGBColor(int(h[0:2], 16), int(h[2:4], 16), int(h[4:6], 16)) inside the
\* try of a parser: int raises ValueError on a slice it cannot read and
\* RGBColor raises it on a value outside 0..255, and the parser returns
\* its fallback
RGBOrFallback(by, h_, fallback) ==
  CHOOSE result \in {
    IF \E part \in { r, g, b } : part.raised \/ part.value < 0
                                  \/ part.value > 255
      THEN fallback
      ELSE Color(by, r.value, g.value, b.value)
    : r \in { Int16(SubSeq(h_, 1, 2)) },
      g \in { Int16(SubSeq(h_, 3, 4)) },
      b \in { Int16(SubSeq(h_, 5, 6)) } } : TRUE

\* DocumentBuilder._hex_color: every leading '#' is dropped
Black == Color("_hex_color", 0, 0, 0)

_hex_color(hex_color_) ==
  CHOOSE result \in {
    IF Len(h) = 6 THEN RGBOrFallback("_hex_color", h, Black) ELSE Black
    : h \in { LStripSet(hex_color_, { "#" }) } } : TRUE

\* _hex_to_rgb of the exporter: the value is trimmed, then every leading
\* '#' is dropped
PrimaryFallback == Color("_hex_to_rgb", 31, 58, 95)

_hex_to_rgb(value_) ==
  CHOOSE result \in {
    IF Len(cleaned) # 6
      THEN PrimaryFallback
      ELSE RGBOrFallback("_hex_to_rgb", cleaned, PrimaryFallback)
    : cleaned \in { LStripSet(Strip(value_), { "#" }) } } : TRUE

\* ------------------------------------------------------------------------
\* State
\* ------------------------------------------------------------------------

VARIABLES
  content,    \* the request's text
  lines,      \* parse_notesforge: lines
  idx,        \* parse_notesforge: the main cursor (0-based)
  nodes,      \* parse_notesforge: nodes
  origin,     \* history: the value of idx when nodes[k] was appended
  warnings,   \* parse_notesforge: warnings
  summary,    \* ParseResult.summary, once the loop has ended
  pc,         \* "request", "rejected": a request of app/main.py;
              \* "parse", "parsed", "rendered", "reparsed": its handler;
              \* "build", "built": the DocumentBuilder of Core.py
  target,     \* the format rendered
  html,       \* render_preview_html's result
  md,         \* to_markdown's result
  txt,        \* to_plain_text's result
  docx,       \* the blocks of create_docx's document
  md2,        \* to_markdown of the re-parsed md
  built,      \* DocumentBuilder.build's outcome
  files,      \* FileStore: the files of base_dir
  clock,      \* time.time(), in seconds since the store was created
  uuids,      \* the number of uuid4 values drawn so far
  issued,     \* history: the GenerateResponse of each generate request
  served,     \* the outcome of the last download request
  app_config,     \* AppState.app_config of backend_server.py
  config_file,    \* the configuration file at config_path
  header_footer,  \* the header and footer runs of the document built
  hex_color,      \* the string handed to a colour parser
  rgb,            \* the colour parser's outcome
  themes,         \* ThemeManager.themes
  reply,          \* the response to the last theme request
  before,         \* history: themes when the last save request arrived
  para_text,      \* the text handed to _add_paragraph
  para            \* _add_paragraph's outcome

vars == << content, lines, idx, nodes, origin, warnings, summary, pc, target,
           html, md, txt, docx, md2, built, files, clock, uuids, issued,
           served, app_config, config_file, header_footer, hex_color,
           rgb, themes, reply, before, para_text, para >>

\* the state of the file store and of its requests
storeVars == << files, clock, uuids, issued, served >>

\* no download request has been answered
NotServed == [status |-> 0, fileId |-> 0, file |-> << >>, media_type |-> "",
              at |-> 0]

\* the configuration of the legacy server and what a build makes of it
configVars == << app_config, config_file, header_footer >>

\* no configuration file, and the one save_config writes
NoFile == [exists |-> FALSE, data |-> << >>]

Saved(cfg) == [exists |-> TRUE, data |-> cfg]

\* no document has been built
NoHeaderFooter == [header |-> << >>, footer |-> << >>]

\* a server with the configuration of AppConfig(), saved by load_config
ConfigDefault ==
  /\ app_config = AppConfig
  /\ config_file = Saved(AppConfig)
  /\ header_footer = NoHeaderFooter

\* the colour parsers and the theme store
toolVars == << hex_color, rgb, themes, reply, before, para_text, para >>

\* no colour has been parsed and no theme request answered
NoColor == [by |-> "", raised |-> FALSE, r |-> 0, g |-> 0, b |-> 0]

NoReply == [op |-> "", key |-> << >>, status |-> 0]

NoParagraph == [raised |-> FALSE, blocks |-> << >>]

ToolsIdle ==
  /\ hex_color = << >>
  /\ rgb = NoColor
  /\ themes = << >>
  /\ reply = NoReply
  /\ before = << >>
  /\ para_text = << >>
  /\ para = NoParagraph

StoreEmpty ==
  /\ files = { }
  /\ clock = 0
  /\ uuids = 0
  /\ issued = << >>
  /\ served = NotServed

NoSummary == [word_count |-> 0, heading_count |-> 0, reading_time_minutes |-> 0]

Init ==
  /\ content \in Inputs
  /\ lines = SplitLines(content)
  /\ idx = 0
  /\ nodes = << >>
  /\ origin = << >>
  /\ warnings = << >>
  /\ summary = NoSummary
  /\ pc \in { "request", "parse", "build" }
  /\ target = ""
  /\ html = << >>
  /\ md = << >>
  /\ txt = << >>
  /\ docx = << >>
  /\ md2 = << >>
  /\ built = Built("none", "", << >>, << >>, 0, << >>)
  /\ StoreEmpty
  /\ ConfigDefault
  /\ ToolsIdle

\* ------------------------------------------------------------------------
\* The validation of a PreviewRequest or GenerateRequest (models.py):
\* content has min_length 1; the handler runs on a valid request only
\* ------------------------------------------------------------------------

Validate ==
  /\ pc = "request"
  /\ pc' = IF Len(content) >= 1 THEN "parse" ELSE "rejected"
  /\ UNCHANGED << built, content, lines, idx, nodes, origin, warnings, summary,
                  target, html, md, txt, docx, md2 >>
  /\ UNCHANGED storeVars
  /\ UNCHANGED configVars
  /\ UNCHANGED toolVars

\* ------------------------------------------------------------------------
\* parse_notesforge, one action for each branch of the main loop
\* ------------------------------------------------------------------------

Iterate(b) ==
  /\ pc = "parse"
  /\ idx < Len(lines)
  /\ Branch(lines, idx) = b
  /\ LET st == ParseStep(lines, idx)
     IN  /\ idx' = st.next
         /\ nodes' = IF st.emit THEN Append(nodes, st.node) ELSE nodes
         /\ origin' = IF st.emit THEN Append(origin, idx) ELSE origin
         /\ warnings' = warnings \o st.warns
  /\ UNCHANGED << built, content, lines, summary, pc, target, html, md, txt, docx, md2 >>
  /\ UNCHANGED storeVars
  /\ UNCHANGED configVars
  /\ UNCHANGED toolVars

SkipBlank == Iterate("blank")
StrayLine == Iterate("stray")
Heading == Iterate("heading")
Paragraph == Iterate("PARAGRAPH")
Bullet == Iterate("BULLET")
Numbered == Iterate("NUMBERED")
Code == Iterate("CODE")
TableMarker == Iterate("TABLE")

\* the loop ends: the summary is computed and the ParseResult returned
Return ==
  /\ pc = "parse"
  /\ idx >= Len(lines)
  /\ summary' = Summary(nodes)
  /\ pc' = "parsed"
  /\ UNCHANGED << built, content, lines, idx, nodes, origin, warnings, target,
                  html, md, txt, docx, md2 >>
  /\ UNCHANGED storeVars
  /\ UNCHANGED configVars
  /\ UNCHANGED toolVars

\* ------------------------------------------------------------------------
\* Rendering the ParseResult
\* ------------------------------------------------------------------------

Css == << "css" >>

\* the selectors of css_from_theme's rules that declare a background
CssBackgrounds == { "pre", "thead" }

RenderPreview ==
  /\ pc = "parsed"
  /\ html' = render_preview_html(nodes, Css, << >>)
  /\ target' = "html"
  /\ pc' = "rendered"
  /\ UNCHANGED << built, content, lines, idx, nodes, origin, warnings, summary,
                  md, txt, docx, md2 >>
  /\ UNCHANGED storeVars
  /\ UNCHANGED configVars
  /\ UNCHANGED toolVars

RenderMarkdown ==
  /\ pc = "parsed"
  /\ md' = to_markdown(nodes)
  /\ target' = "md"
  /\ pc' = "rendered"
  /\ UNCHANGED << built, content, lines, idx, nodes, origin, warnings, summary,
                  html, txt, docx, md2 >>
  /\ UNCHANGED storeVars
  /\ UNCHANGED configVars
  /\ UNCHANGED toolVars

RenderPlainText ==
  /\ pc = "parsed"
  /\ txt' = to_plain_text(nodes)
  /\ target' = "txt"
  /\ pc' = "rendered"
  /\ UNCHANGED << built, content, lines, idx, nodes, origin, warnings, summary,
                  html, md, docx, md2 >>
  /\ UNCHANGED storeVars
  /\ UNCHANGED configVars
  /\ UNCHANGED toolVars

RenderDocx ==
  /\ pc = "parsed"
  /\ docx' = create_docx(nodes)
  /\ target' = "docx"
  /\ pc' = "rendered"
  /\ UNCHANGED << built, content, lines, idx, nodes, origin, warnings, summary,
                  html, md, txt, md2 >>
  /\ UNCHANGED storeVars
  /\ UNCHANGED configVars
  /\ UNCHANGED toolVars

\* the Markdown output is parsed and rendered again
Reparse ==
  /\ pc = "rendered"
  /\ target = "md"
  /\ md2' = to_markdown(parse_notesforge(md).nodes)
  /\ pc' = "reparsed"
  /\ UNCHANGED << built, content, lines, idx, nodes, origin, warnings, summary,
                  target, html, md, txt, docx >>
  /\ UNCHANGED storeVars
  /\ UNCHANGED configVars
  /\ UNCHANGED toolVars

\* ------------------------------------------------------------------------
\* The DocumentBuilder: backend_server.py's generate hands the request's
\* text to build
\* ------------------------------------------------------------------------

Build ==
  /\ pc = "build"
  /\ \E exists \in BOOLEAN :
       \E made \in { build(content, exists) } :
          /\ built' = made
          /\ header_footer' = IF made.status = "ok"
                                THEN _apply_header_footer(app_config)
                                ELSE header_footer
  /\ pc' = "built"
  /\ UNCHANGED << content, lines, idx, nodes, origin, warnings, summary,
                  target, html, md, txt, docx, md2 >>
  /\ UNCHANGED storeVars
  /\ UNCHANGED << app_config, config_file >>
  /\ UNCHANGED toolVars

Next ==
  \/ Validate
  \/ SkipBlank
  \/ StrayLine
  \/ Heading
  \/ Paragraph
  \/ Bullet
  \/ Numbered
  \/ Code
  \/ TableMarker
  \/ Return
  \/ RenderPreview
  \/ RenderMarkdown
  \/ RenderPlainText
  \/ RenderDocx
  \/ Reparse
  \/ Build

Spec == Init /\ [][Next]_vars

\* every action that is enabled is eventually taken: the request handlers
\* run to completion
FairSpec == Spec /\ WF_vars(Next)

\* ------------------------------------------------------------------------
\* to_markdown as a function of its argument: the node sequences are drawn
\* from the data model (parser.py's Node), whether or not a text parses
\* to them
\* ------------------------------------------------------------------------

\* number of nodes in an enumerated node sequence
MaxNodes == 2

\* nodes of every type: headings of the six levels, lists without items
\* (items None), with one and with two items, code of one and of two lines,
\* tables without rows (rows None), of one row and of jagged rows
SampleNodes ==
  { Node("heading", << "T" >>, l, << >>, << >>) : l \in 1..6 }
  \cup { Node("paragraph", t, 0, << >>, << >>) : t \in { << "p" >>, << >> } }
  \cup { Node(t, << >>, 0, its, << >>) :
           t \in { "bullet", "numbered" },
           its \in { << >>, << << "a" >> >>, << << "a" >>, << "b", " ", "c" >> >> } }
  \cup { Node("code", t, 0, << >>, << >>) :
           t \in { << "x" >>, << " ", "y", "\n", "z" >> } }
  \cup { Node("table", << >>, 0, << >>, rs) :
           rs \in { << >>,
                    << << << "h" >>, << "k" >> >> >>,
                    << << << "h" >>, << "k" >> >>, << << "1" >> >>,
                       << << "2" >>, << >>, << "3" >> >> >> } }

RECURSIVE NodeSeqs(_)
NodeSeqs(n_) ==
  CHOOSE result \in {
    IF n = 0 THEN { << >> }
    ELSE NodeSeqs(n - 1)
         \cup { Append(ns, node) : ns \in NodeSeqs(n - 1), node \in SampleNodes }
    : n \in {n_} } : TRUE

\* the export of a ParseResult whose nodes are any node sequence
NodeInit ==
  /\ nodes \in NodeSeqs(MaxNodes)
  /\ content = << >>
  /\ lines = << >>
  /\ idx = 0
  /\ origin = [k \in 1..Len(nodes) |-> 0]
  /\ warnings = << >>
  /\ summary = Summary(nodes)
  /\ pc = "parsed"
  /\ target = ""
  /\ html = << >>
  /\ md = << >>
  /\ txt = << >>
  /\ docx = << >>
  /\ md2 = << >>
  /\ built = Built("none", "", << >>, << >>, 0, << >>)
  /\ StoreEmpty
  /\ ConfigDefault
  /\ ToolsIdle

NodeNext ==
  \/ RenderMarkdown
  \/ RenderPlainText

NodeSpec == NodeInit /\ [][NodeNext]_vars


\* ------------------------------------------------------------------------
\* The export store and its requests: FileStore and create_export_file
\* (exporter.py), generate and download (app/main.py).  The handlers are
\* coroutines that never await, so each request runs as one step.
\* ------------------------------------------------------------------------

\* number of generate requests
MaxRequests == 2

\* FileStore.ttl_seconds
ttl_seconds == 60 * 60 * 6

\* the latest time a request arrives, in seconds past the TTL
MaxLate == 1

\* the times at which requests arrive: around the creation of the store
\* and around the TTL
Instants == { 0, 1 } \cup { ttl_seconds + k : k \in 0..MaxLate }

MEDIA_TYPES ==
  [ docx |-> "application/vnd.openxmlformats-officedocument.wordprocessingml.document",
    pdf |-> "application/pdf",
    html |-> "text/html; charset=utf-8",
    md |-> "text/markdown; charset=utf-8",
    txt |-> "text/plain; charset=utf-8" ]

\* GenerateRequest.format
Formats == { "docx", "pdf", "html", "md", "txt" }

\* what _convert_docx_to_pdf meets: docx2pdf writes pdf_path; LibreOffice
\* writes <docx stem>.pdf, which is moved to pdf_path; both converters fail
\* and leave nothing; LibreOffice fails (exit status, empty output or
\* time-out) and leaves <docx stem>.pdf behind
Conversions == { "docx2pdf", "libreoffice", "failed", "failed_output_left" }

\* the texts of the generate requests
RequestTexts == { S_Structure, S_Table }

\* a file of base_dir named <id>.<ext>; docx and text are its content,
\* request is the generate request that wrote it
File(id, ext, mtime, dx, tx, req) ==
  [id |-> id, ext |-> ext, mtime |-> mtime, docx |-> dx, text |-> tx,
   request |-> req]

\* FileStore.cleanup: the files it may leave are those not older than the
\* TTL and any of the others whose unlink raised OSError
Expired(fs_, now_) ==
  CHOOSE result \in {
      { f \in fs : now - f.mtime > ttl_seconds }
    : fs \in {fs_}, now \in {now_} } : TRUE

\* FileStore.resolve_path: the matches of base_dir.glob("<file_id>.*"),
\* none when file_id is empty or not hexadecimal (modelled as an id < 0)
resolve_path(fs_, file_id_) ==
  CHOOSE result \in {
      IF file_id < 0 THEN { } ELSE { f \in fs : f.id = file_id }
    : fs \in {fs_}, file_id \in {file_id_} } : TRUE

\* the text create_export_file writes for the formats that are not documents
ExportText(target_format_, ns_) ==
  CHOOSE result \in {
      CASE target_format = "html" -> render_preview_html(ns, Css, << >>)
        [] target_format = "md" -> to_markdown(ns)
        [] target_format = "txt" -> to_plain_text(ns)
        [] OTHER -> << >>
    : target_format \in {target_format_}, ns \in {ns_} } : TRUE

\* the files create_export_file writes and the one it returns, given the
\* document dx of create_docx and the text tx of the target format
\* (id the first of the uuid4 values drawn, n the request)
ExportFiles(target_format_, dx_, tx_, conversion_, id_, now_, n_) ==
  CHOOSE result \in {
      CASE target_format = "docx" ->
             [written |-> { File(id, "docx", now, dx, << >>, n) },
              out |-> File(id, "docx", now, dx, << >>, n), ids |-> 1]
        [] target_format = "pdf" /\ conversion \in { "docx2pdf", "libreoffice" } ->
             [written |-> { File(id, "docx", now, dx, << >>, n),
                            File(id + 1, "pdf", now, dx, << >>, n) },
              out |-> File(id + 1, "pdf", now, dx, << >>, n), ids |-> 2]
        [] target_format = "pdf" /\ conversion = "failed_output_left" ->
             [written |-> { File(id, "docx", now, dx, << >>, n),
                            File(id, "pdf", now, << >>, << >>, n) },
              out |-> File(id, "docx", now, dx, << >>, n), ids |-> 2]
        [] target_format = "pdf" ->
             [written |-> { File(id, "docx", now, dx, << >>, n) },
              out |-> File(id, "docx", now, dx, << >>, n), ids |-> 2]
        [] OTHER ->
             [written |-> { File(id, "docx", now, dx, << >>, n),
                            File(id + 1, target_format, now, << >>, tx, n) },
              out |-> File(id + 1, target_format, now, << >>, tx, n),
              ids |-> 2]
    : target_format \in {target_format_}, dx \in {dx_}, tx \in {tx_},
      conversion \in {conversion_}, id \in {id_}, now \in {now_},
      n \in {n_} } : TRUE

\* create_export_file(target_format, nodes, ...) after the cleanup
create_export_file(target_format_, ns_, conversion_, id_, now_, n_) ==
  CHOOSE result \in {
      ExportFiles(target_format, create_docx(ns),
                  ExportText(target_format, ns), conversion, id, now, n)
    : target_format \in {target_format_}, ns \in {ns_},
      conversion \in {conversion_}, id \in {id_}, now \in {now_},
      n \in {n_} } : TRUE

\* POST /api/generate: parse, clean the store up, write the files, answer
\* with the id of the file returned
Generate ==
  /\ pc = "store"
  /\ Len(issued) < MaxRequests
  /\ \E text \in RequestTexts, format \in Formats, conversion \in Conversions,
        kept \in SUBSET Expired(files, clock) :
       /\ format # "pdf" => conversion = "failed"
       /\ \E made \in { create_export_file(format,
                                             parse_notesforge(text).nodes,
                                             conversion, uuids + 1, clock,
                                             Len(issued) + 1) } :
            /\ files' = (files \ Expired(files, clock)) \cup kept
                          \cup made.written
            /\ uuids' = uuids + made.ids
            /\ issued' = Append(issued, [fileId |-> made.out.id,
                                         file |-> made.out])
  /\ UNCHANGED << clock, served >>
  /\ UNCHANGED << content, lines, idx, nodes, origin, warnings, summary, pc,
                  target, html, md, txt, docx, md2, built >>
  /\ UNCHANGED configVars
  /\ UNCHANGED toolVars

\* GET /api/download/{file_id}: file_id is one a generate returned, an id
\* of no file (0) or a string that is not hexadecimal (-1)
Download ==
  /\ pc = "store"
  /\ \E file_id \in { issued[k].fileId : k \in 1..Len(issued) } \cup { 0, -1 } :
       LET matches == resolve_path(files, file_id)
       IN  IF matches = { }
             THEN served' = [status |-> 404, fileId |-> file_id, file |-> << >>,
                             media_type |-> "", at |-> clock]
             ELSE \E path \in matches :
                    served' = [status |-> 200, fileId |-> file_id,
                               file |-> path,
                               media_type |-> MEDIA_TYPES[path.ext],
                               at |-> clock]
  /\ UNCHANGED << files, clock, uuids, issued >>
  /\ UNCHANGED << content, lines, idx, nodes, origin, warnings, summary, pc,
                  target, html, md, txt, docx, md2, built >>
  /\ UNCHANGED configVars
  /\ UNCHANGED toolVars

\* time passes between requests
Tick ==
  /\ pc = "store"
  /\ \E now \in Instants :
       /\ now > clock
       /\ clock' = now
  /\ UNCHANGED << files, uuids, issued, served >>
  /\ UNCHANGED << content, lines, idx, nodes, origin, warnings, summary, pc,
                  target, html, md, txt, docx, md2, built >>
  /\ UNCHANGED configVars
  /\ UNCHANGED toolVars

StoreInit ==
  /\ content = << >>
  /\ lines = << >>
  /\ idx = 0
  /\ nodes = << >>
  /\ origin = << >>
  /\ warnings = << >>
  /\ summary = NoSummary
  /\ pc = "store"
  /\ target = ""
  /\ html = << >>
  /\ md = << >>
  /\ txt = << >>
  /\ docx = << >>
  /\ md2 = << >>
  /\ built = Built("none", "", << >>, << >>, 0, << >>)
  /\ StoreEmpty
  /\ ConfigDefault
  /\ ToolsIdle

StoreNext ==
  \/ Generate
  \/ Download
  \/ Tick

StoreSpec == StoreInit /\ [][StoreNext]_vars
\* ------------------------------------------------------------------------
\* backend_server.py: the configuration requests, then a document built
\* ------------------------------------------------------------------------

\* the page formats requests and configuration files are drawn from
PageFormats ==
  { << "X" >>,
    << "P", "a", "g", "e", " ", "X", " ", "o", "f", " ", "Y" >>,
    << "X", " ", "|", " ", "P", "a", "g", "e" >>,
    << "X", " ", "|", " ", "P", " ", "a", " ", "g", " ", "e" >>,
    << " ", "X", " ", "|", " ", "P", "a", "g", "e", " " >>,
    << >>,
    << " ", " " >>,
    << "P", "a", "g", "e" >>,
    << "{", "p", "a", "g", "e", "}", "/", "{", "t", "o", "t", "a", "l",
       "}" >>,
    << "{", "P", "A", "G", "E", "}", " ", "o", "f", " ", "{", "P", "a",
       "g", "e", "s", "}" >>,
    << "x", "-", "y" >>,
    << "F", "a", "x", " ", "X" >>,
    << "X", "Y" >>,
    << "a", "{", "p", "a", "g", "e", "}" >>,
    << "p", ".", "{", "p", "a", "g", "e", "}" >>,
    << "X", " ", "X" >>,
    << " ", " ", "-", " ", "X", " ", "-", " ", " " >>,
    << "Y", "_", "X" >> }

\* the page formats a header is given
HeaderFormats ==
  { << "X" >>,
    << "X", " ", "|", " ", "P", "a", "g", "e" >>,
    << "{", "p", "a", "g", "e", "}" >> }

\* the numbering styles a configuration is given
Styles ==
  { << "a", "r", "a", "b", "i", "c" >>,
    << "r", "o", "m", "a", "n" >>,
    << "a", "l", "p", "h", "a" >>,
    << "R", "o", "m", "a", "n" >>,
    << "a", "l", "p", "h", "a", "b", "e", "t", "i", "c" >> }

\* the configuration files a server may find when it starts: written by
\* an earlier version or by hand, with some of the keys
ConfigFiles ==
  { NoFile, [exists |-> TRUE, data |-> << >>] }
    \cup { [exists |-> TRUE, data |-> [footer |-> [page_format |-> f]]] :
             f \in PageFormats }
    \cup { [exists |-> TRUE,
            data |-> [header |-> [page_format |-> f,
                                  page_number_position |-> "header"],
                      footer |-> [separator |-> FALSE]]] :
             f \in HeaderFormats }

\* AppState.load_config(): the file is read with from_dict; a server
\* without a file takes AppConfig() and writes it
load_config(file_) ==
  CHOOSE result \in {
    IF file.exists
      THEN [app_config |-> from_dict(file.data), config_file |-> file]
      ELSE [app_config |-> AppConfig, config_file |-> Saved(AppConfig)]
    : file \in {file_} } : TRUE

\* POST /api/config/header with page_format and page_number_position set
UpdateHeader ==
  /\ pc = "build"
  /\ \E page_format \in HeaderFormats,
        page_number_position \in { "header", "footer" } :
       \E cfg \in { [app_config EXCEPT
                       !.header.page_format = page_format,
                       !.header.page_number_position = page_number_position] } :
          /\ app_config' = cfg
          /\ config_file' = Saved(cfg)
  /\ UNCHANGED << content, lines, idx, nodes, origin, warnings, summary, pc,
                  target, html, md, txt, docx, md2, built, header_footer >>
  /\ UNCHANGED storeVars
  /\ UNCHANGED toolVars

\* POST /api/config/footer with page_format set
UpdateFooter ==
  /\ pc = "build"
  /\ \E page_format \in PageFormats :
       \E cfg \in { [app_config EXCEPT !.footer.page_format = page_format] } :
          /\ app_config' = cfg
          /\ config_file' = Saved(cfg)
  /\ UNCHANGED << content, lines, idx, nodes, origin, warnings, summary, pc,
                  target, html, md, txt, docx, md2, built, header_footer >>
  /\ UNCHANGED storeVars
  /\ UNCHANGED toolVars

\* POST /api/config/update with the path footer.page_number_style: the
\* value is set in config_data and the configuration is read again with
\* from_dict
UpdateConfig ==
  /\ pc = "build"
  /\ \E value \in Styles :
       \E cfg \in { from_dict([app_config EXCEPT
                                 !.footer.page_number_style = value]) } :
          /\ app_config' = cfg
          /\ config_file' = Saved(cfg)
  /\ UNCHANGED << content, lines, idx, nodes, origin, warnings, summary, pc,
                  target, html, md, txt, docx, md2, built, header_footer >>
  /\ UNCHANGED storeVars
  /\ UNCHANGED toolVars

\* the server starts again: AppState() calls load_config()
LoadConfig ==
  /\ pc = "build"
  /\ \E loaded \in { load_config(config_file) } :
       /\ app_config' = loaded.app_config
       /\ config_file' = loaded.config_file
  /\ UNCHANGED << content, lines, idx, nodes, origin, warnings, summary, pc,
                  target, html, md, txt, docx, md2, built, header_footer >>
  /\ UNCHANGED storeVars
  /\ UNCHANGED toolVars

\* a server that has started on one of the configuration files and is
\* about to build a document
ConfigInit ==
  /\ content = S_OneLine
  /\ lines = << >>
  /\ idx = 0
  /\ nodes = << >>
  /\ origin = << >>
  /\ warnings = << >>
  /\ summary = NoSummary
  /\ pc = "build"
  /\ target = ""
  /\ html = << >>
  /\ md = << >>
  /\ txt = << >>
  /\ docx = << >>
  /\ md2 = << >>
  /\ built = Built("none", "", << >>, << >>, 0, << >>)
  /\ StoreEmpty
  /\ \E file \in ConfigFiles :
       \E loaded \in { load_config(file) } :
          /\ app_config = loaded.app_config
          /\ config_file = loaded.config_file
  /\ header_footer = NoHeaderFooter
  /\ ToolsIdle

ConfigNext ==
  \/ UpdateHeader
  \/ UpdateFooter
  \/ UpdateConfig
  \/ LoadConfig
  \/ Build

ConfigSpec == ConfigInit /\ [][ConfigNext]_vars

\* ------------------------------------------------------------------------
\* The colour parsers applied to the strings of a configuration or theme
\* ------------------------------------------------------------------------

\* colour strings: well-formed, of another length, with other characters,
\* with more than one '#', with whitespace and with signs
ColorStrings ==
  { << "#", "1", "F", "3", "A", "5", "F" >>,
    << "1", "F", "3", "A", "5", "F" >>,
    << "#", "1", "f", "3", "a", "5", "f" >>,
    << "#", "0", "0", "0", "0", "0", "0" >>,
    << "#", "F", "F", "F", "F", "F", "F" >>,
    << "A", "b", "C", "d", "E", "f" >>,
    << "#", "0", "5", "6", "3", "C", "1" >>,
    << >>,
    << "#" >>,
    << "#", "F", "F", "F" >>,
    << "#", "1", "2", "3", "4", "5" >>,
    << "#", "1", "2", "3", "4", "5", "6", "7" >>,
    << "1", "2", "3", "4", "5" >>,
    << "1", "2", "3", "4", "5", "6", "7" >>,
    << "#", "G", "G", "G", "G", "G", "G" >>,
    << "#", "1", "2", "3", "4", "5", "G" >>,
    << "r", "e", "d" >>,
    << "#", "#", "A", "A", "B", "B", "C", "C" >>,
    << "#", "#", "#", "1", "2", "3", "4", "5", "6" >>,
    << "#", "#", "#", "#", "#", "#" >>,
    << " ", "#", "A", "A", "B", "B", "C", "C" >>,
    << "#", "A", "A", "B", "B", "C", "C", " " >>,
    << " ", "A", "A", "B", "B", "C", "C", " " >>,
    << "#", " ", "A", "A", "B", "B", "C", "C" >>,
    << "+", "1", "+", "2", "+", "3" >>,
    << "#", "+", "1", "+", "2", "+", "3" >>,
    << "-", "1", "-", "2", "-", "3" >>,
    << "-", "0", "-", "0", "-", "0" >>,
    << "#", "-", "1", "F", "F", "F", "F" >>,
    << " ", "1", " ", "2", " ", "3" >>,
    << "1", " ", "2", " ", "3", " " >>,
    << "#", "\t", "1", "\t", "2", "\t", "3" >>,
    << "0", "x", "0", "x", "0", "x" >>,
    << "1", "_", "2", "_", "3", "_" >>,
    << "#", "1", "2", " ", "4", "5", "6" >>,
    << "#", " ", " ", " ", " ", " ", " " >>,
    << "+", "-", "+", "-", "+", "-" >>,
    << "#", "1", "F", "3", "A", "5", "F", "\n" >>,
    << "1", "F", " ", "3", "A", " ", "5", "F" >>,
    << "#", "1", "F", "3", "A", "5" >> }

\* a run or a border is coloured by the DocumentBuilder
HexColor ==
  /\ pc = "build"
  /\ rgb = NoColor
  /\ rgb' = _hex_color(hex_color)
  /\ UNCHANGED << content, lines, idx, nodes, origin, warnings, summary, pc,
                  target, html, md, txt, docx, md2, built, hex_color,
                  themes, reply, before, para_text, para >>
  /\ UNCHANGED storeVars
  /\ UNCHANGED configVars

\* a heading or a run is coloured by the exporter
HexToRgb ==
  /\ pc = "build"
  /\ rgb = NoColor
  /\ rgb' = _hex_to_rgb(hex_color)
  /\ UNCHANGED << content, lines, idx, nodes, origin, warnings, summary, pc,
                  target, html, md, txt, docx, md2, built, hex_color,
                  themes, reply, before, para_text, para >>
  /\ UNCHANGED storeVars
  /\ UNCHANGED configVars

ColorInit ==
  /\ content = S_OneLine
  /\ lines = << >>
  /\ idx = 0
  /\ nodes = << >>
  /\ origin = << >>
  /\ warnings = << >>
  /\ summary = NoSummary
  /\ pc = "build"
  /\ target = ""
  /\ html = << >>
  /\ md = << >>
  /\ txt = << >>
  /\ docx = << >>
  /\ md2 = << >>
  /\ built = Built("none", "", << >>, << >>, 0, << >>)
  /\ StoreEmpty
  /\ ConfigDefault
  /\ hex_color \in ColorStrings
  /\ rgb = NoColor
  /\ themes = << >>
  /\ reply = NoReply
  /\ before = << >>
  /\ para_text = << >>
  /\ para = NoParagraph

ColorNext ==
  \/ HexColor
  \/ HexToRgb

ColorSpec == ColorInit /\ [][ColorNext]_vars

\* ------------------------------------------------------------------------
\* _add_paragraph applied to the text of a paragraph
\* ------------------------------------------------------------------------

MaxParaLen == 4

ParaChars == { "*", "{", "}", ":", "a", " " }

\* paragraph texts: all short texts over the characters of the inline
\* patterns, and longer ones with spans of each kind
ParagraphTexts ==
  UNION { [1..n -> ParaChars] : n \in 0..MaxParaLen }
    \cup { << "*", "*", "b", "*", "*", " ", "*", "i", "*", " ", "{", "h",
              "1", ":", "t", "}", " ", "u" >>,
           << "{", "r", "e", "d", ":", "t", "}", " ", "a", "n", "d", " ",
              "{", "b", "o", "d", "y", ":", "u", "}" >>,
           << "a", " ", "*", "*", "b", " ", "c", "*", "*", " ", "d" >>,
           << "{", "h", "1", ":", "a", "}", "{", "h", "2", ":", "b", "}" >>,
           << "*", "*", "a", "*", "b", "*", "*" >>,
           << "{", "a", ":", "b", ":", "c", "}" >>,
           << "2", " ", "*", " ", "3", " ", "*", " ", "4", " ", "=", " ",
              "2", "4" >>,
           << "{", ":", "a", ":", "b", "}" >> }

AddParagraph ==
  /\ pc = "build"
  /\ para = NoParagraph
  /\ para' = _add_paragraph(para_text, << "l", "e", "f", "t" >>)
  /\ UNCHANGED << content, lines, idx, nodes, origin, warnings, summary, pc,
                  target, html, md, txt, docx, md2, built, hex_color, rgb,
                  themes, reply, before, para_text >>
  /\ UNCHANGED storeVars
  /\ UNCHANGED configVars

ParagraphInit ==
  /\ content = S_OneLine
  /\ lines = << >>
  /\ idx = 0
  /\ nodes = << >>
  /\ origin = << >>
  /\ warnings = << >>
  /\ summary = NoSummary
  /\ pc = "build"
  /\ target = ""
  /\ html = << >>
  /\ md = << >>
  /\ txt = << >>
  /\ docx = << >>
  /\ md2 = << >>
  /\ built = Built("none", "", << >>, << >>, 0, << >>)
  /\ StoreEmpty
  /\ ConfigDefault
  /\ hex_color = << >>
  /\ rgb = NoColor
  /\ themes = << >>
  /\ reply = NoReply
  /\ before = << >>
  /\ para_text \in ParagraphTexts
  /\ para = NoParagraph

ParagraphNext == AddParagraph

ParagraphSpec == ParagraphInit /\ [][ParagraphNext]_vars

\* ------------------------------------------------------------------------
\* The theme store of backend_server.py: ThemeManager of Themes.py behind
\* the handlers of /api/themes/save and /api/themes/delete
\* ------------------------------------------------------------------------

\* str.lower() and str.replace(" ", "_")
LowerText(s_) == [i \in 1..Len(s_) |-> Lower(s_[i])]

ReplaceSpaces(s_) == [i \in 1..Len(s_) |-> IF s_[i] = " " THEN "_" ELSE s_[i]]

\* the keys of the built-in themes
builtin ==
  { << "p", "r", "o", "f", "e", "s", "s", "i", "o", "n", "a", "l" >>,
    << "m", "o", "d", "e", "r", "n" >>,
    << "m", "i", "n", "i", "m", "a", "l" >>,
    << "a", "c", "a", "d", "e", "m", "i", "c" >>,
    << "c", "o", "r", "p", "o", "r", "a", "t", "e" >>,
    << "c", "r", "e", "a", "t", "i", "v", "e" >>,
    << "s", "t", "a", "r", "t", "u", "p" >> }

\* the payload save_theme stores
ThemePayload(name, description) ==
  [name |-> name,
   description |-> IF description = << >>
                     THEN << "C", "u", "s", "t", "o", "m", " ", "t", "h", "e",
                             "m", "e" >>
                     ELSE description]

\* ThemeManager.set_theme(key, theme_data): themes after the call
set_theme(themes_, key_, theme_data_) ==
  [k \in DOMAIN themes_ \cup { key_ } |->
     IF k = key_ THEN theme_data_ ELSE themes_[k]]

\* ThemeManager.delete_theme(key): what it returns and themes after the
\* call
delete_theme(themes_, key_) ==
  IF key_ \in DOMAIN themes_
    THEN [deleted |-> TRUE,
          themes |-> [k \in DOMAIN themes_ \ { key_ } |-> themes_[k]]]
    ELSE [deleted |-> FALSE, themes |-> themes_]

Reply(op, key, status) == [op |-> op, key |-> key, status |-> status]

\* the keys and names of the requests
ThemeKeys ==
  { << "M", "y", " ", "T", "h", "e", "m", "e" >>,
    << "m", "y", " ", "t", "h", "e", "m", "e" >>,
    << "m", "y", "_", "t", "h", "e", "m", "e" >>,
    << "D", "a", "r", "k" >>,
    << "d", "a", "r", "k" >>,
    << "M", "o", "d", "e", "r", "n" >>,
    << " " >> }

ThemeNames == { << "A" >>, << "B" >> }

\* what Themes.json holds when the server starts: nothing, a built-in
\* theme, or a built-in and a custom theme
ThemeFiles ==
  { << >>,
    set_theme(<< >>, << "p", "r", "o", "f", "e", "s", "s", "i", "o", "n", "a",
                  "l" >>,
              ThemePayload(<< "P" >>, << >>)),
    set_theme(set_theme(<< >>, << "p", "r", "o", "f", "e", "s", "s", "i", "o",
                           "n", "a", "l" >>,
                        ThemePayload(<< "P" >>, << >>)),
              << "m", "y", "_", "t", "h", "e", "m", "e" >>, ThemePayload(<< "A" >>, << >>)) }

\* POST /api/themes/save
SaveTheme ==
  /\ pc = "build"
  /\ \E key_ \in ThemeKeys, name \in ThemeNames :
       \E key \in { ReplaceSpaces(LowerText(key_)) } :
          /\ before' = themes
          /\ IF key = << >> \/ key \in builtin
               THEN /\ reply' = Reply("save", key_, 400)
                    /\ themes' = themes
               ELSE /\ reply' = Reply("save", key_, 200)
                    /\ themes' = set_theme(themes, key,
                                           ThemePayload(name, << >>))
  /\ UNCHANGED << content, lines, idx, nodes, origin, warnings, summary, pc,
                  target, html, md, txt, docx, md2, built, hex_color, rgb,
                  para_text, para >>
  /\ UNCHANGED storeVars
  /\ UNCHANGED configVars

\* POST /api/themes/delete
DeleteTheme ==
  /\ pc = "build"
  /\ \E key_ \in ThemeKeys :
       \E key \in { LowerText(key_) } :
          IF key \in builtin
            THEN /\ reply' = Reply("delete", key_, 400)
                 /\ themes' = themes
            ELSE \E done \in { delete_theme(themes, key) } :
                   /\ reply' = Reply("delete", key_,
                                     IF done.deleted THEN 200 ELSE 404)
                   /\ themes' = done.themes
  /\ UNCHANGED << content, lines, idx, nodes, origin, warnings, summary, pc,
                  target, html, md, txt, docx, md2, built, hex_color, rgb,
                  before, para_text, para >>
  /\ UNCHANGED storeVars
  /\ UNCHANGED configVars

ThemeInit ==
  /\ content = S_OneLine
  /\ lines = << >>
  /\ idx = 0
  /\ nodes = << >>
  /\ origin = << >>
  /\ warnings = << >>
  /\ summary = NoSummary
  /\ pc = "build"
  /\ target = ""
  /\ html = << >>
  /\ md = << >>
  /\ txt = << >>
  /\ docx = << >>
  /\ md2 = << >>
  /\ built = Built("none", "", << >>, << >>, 0, << >>)
  /\ StoreEmpty
  /\ ConfigDefault
  /\ hex_color = << >>
  /\ rgb = NoColor
  /\ themes \in ThemeFiles
  /\ reply = NoReply
  /\ before = themes
  /\ para_text = << >>
  /\ para = NoParagraph

ThemeNext ==
  \/ SaveTheme
  \/ DeleteTheme

ThemeSpec == ThemeInit /\ [][ThemeNext]_vars

\* ------------------------------------------------------------------------
\* Properties
\* ------------------------------------------------------------------------

Parsed == pc \in {"parsed", "rendered", "reparsed"}

BlockBranches == {"PARAGRAPH", "BULLET", "NUMBERED", "CODE", "TABLE"}

IsBlank(line_) ==
  CHOOSE result \in {
      \A i \in 1..Len(line) : line[i] \in WS
    : line \in {line_} } : TRUE

\* the first line after line i (0-based) that is a marker line, or the
\* number of lines when there is none
NextMarker(ls_, i_) ==
  CHOOSE result \in {
    IF \E j \in (i+1)..(Len(ls)-1) : _is_marker_line(ls[j+1])
      THEN CHOOSE j \in (i+1)..(Len(ls)-1) :
             /\ _is_marker_line(ls[j+1])
             /\ \A h \in (i+1)..(j-1) : ~_is_marker_line(ls[h+1])
      ELSE Len(ls)
    : ls \in {ls_}, i \in {i_} } : TRUE

\* the node appended for the line at origin i, when there is exactly one
NodeAt(i_) ==
  CHOOSE result \in {
      nodes[CHOOSE k \in 1..Len(nodes) : origin[k] = i]
    : i \in {i_} } : TRUE

\* C1 as stated: every iteration of the main loop advances the cursor by at
\* least one line without passing a marker line, and after a block the
\* cursor is on a marker line or at the end of the input.
C1_Original ==
  [][(pc = "parse" /\ idx < Len(lines)) =>
       /\ idx' > idx
       /\ idx' <= NextMarker(lines, idx)
       /\ (Branch(lines, idx) \in BlockBranches => idx' = NextMarker(lines, idx))
    ]_vars

\* C1 (amended): parse_notesforge terminates with a ParseResult on every
\* input; every iteration of the main loop advances the cursor by at least
\* one line without passing a marker line; the lookahead of BULLET, NUMBERED,
\* CODE and TABLE ends on the next marker line or at the end of the input,
\* and the lookahead of PARAGRAPH ends there or at the first blank line
\* before it.
C1_Safe ==
  /\ [][(pc = "parse" /\ idx < Len(lines)) =>
          /\ idx' > idx
          /\ idx' <= NextMarker(lines, idx)
          /\ (Branch(lines, idx) \in BlockBranches \ {"PARAGRAPH"}
                => idx' = NextMarker(lines, idx))
          /\ (Branch(lines, idx) = "PARAGRAPH" /\ idx' # NextMarker(lines, idx)
                => /\ IsBlank(lines[idx' + 1])
                   /\ \A j \in (idx+1)..(idx'-1) : ~IsBlank(lines[j+1]))
       ]_vars

C1_Live == (pc = "parse") ~> (pc = "parsed")

C1_Terminates == C1_Safe /\ C1_Live

\* a PARAGRAPH block that consumed a line and was ended by a blank line,
\* with an unmarked line after it
C1_Witness ==
  /\ Parsed
  /\ \E k \in 1..Len(nodes) :
       /\ Branch(lines, origin[k]) = "PARAGRAPH"
       /\ \E p \in (origin[k] + 2)..(Len(lines) - 2) :
            /\ IsBlank(lines[p + 1])
            /\ \A j \in (origin[k] + 1)..(p - 1) :
                 ~IsBlank(lines[j + 1]) /\ ~_is_marker_line(lines[j + 1])
            /\ ~IsBlank(lines[p + 2])
            /\ ~_is_marker_line(lines[p + 2])

\* the node type and heading level MARKER_RE's marker name stands for
ExpectedType(marker_) ==
  CHOOSE result \in {
    CASE marker = "PARAGRAPH" -> "paragraph"
      [] marker = "BULLET"    -> "bullet"
      [] marker = "NUMBERED"  -> "numbered"
      [] marker = "CODE"      -> "code"
      [] marker = "TABLE"     -> "table"
      [] OTHER                -> "heading"
    : marker \in {marker_} } : TRUE

ExpectedLevel(marker_) ==
  CHOOSE result \in {
    CASE marker = "H1" -> 1 [] marker = "H2" -> 2 [] marker = "H3" -> 3
      [] marker = "H4" -> 4 [] marker = "H5" -> 5 [] marker = "H6" -> 6
      [] OTHER -> 0
    : marker \in {marker_} } : TRUE

\* C3: in the returned ParseResult every marker line is the origin of
\* exactly one node, of the type (and heading level) of its marker; no marker
\* line lies inside the span of another node; nodes are in source order.
C3_OneNodePerMarker ==
  Parsed =>
    /\ \A i \in 0..(Len(lines) - 1) :
         _is_marker_line(lines[i+1]) =>
           /\ Cardinality({k \in 1..Len(nodes) : origin[k] = i}) = 1
           /\ NodeAt(i).type = ExpectedType(MarkerMatch(lines[i+1]).marker)
           /\ NodeAt(i).level = ExpectedLevel(MarkerMatch(lines[i+1]).marker)
    /\ \A k \in 1..(Len(nodes) - 1) : origin[k] < origin[k+1]

\* a list block that consumed several lines and is followed by a marker
\* line with its own node
C3_Witness ==
  /\ Parsed
  /\ \E k \in 1..(Len(nodes) - 1) :
       /\ nodes[k].type \in {"bullet", "numbered"}
       /\ Len(nodes[k].items) >= 2
       /\ origin[k+1] >= origin[k] + 3
       /\ _is_marker_line(lines[origin[k+1] + 1])

\* the sum of the whitespace-token counts of the parts
RECURSIVE TokenSum(_)
TokenSum(parts_) ==
  CHOOSE result \in {
    IF parts = << >> THEN 0 ELSE WordCount(Head(parts)) + TokenSum(Tail(parts))
    : parts \in {parts_} } : TRUE

\* the text-bearing fields of a node, in order
NodeParts(node_) ==
  CHOOSE result \in {
    (IF node.type \in {"heading", "paragraph", "code"}
       THEN << node.text >> ELSE << >>)
    \o node.items \o Flatten(node.rows)
    : node \in {node_} } : TRUE

\* C4: summary.word_count is the number of whitespace-separated tokens of
\* the heading, paragraph and code texts, list items and table cells of the
\* returned nodes.
C4_WordCount ==
  Parsed =>
    summary.word_count =
      TokenSum(Flatten([k \in 1..Len(nodes) |-> NodeParts(nodes[k])]))

\* a result with a multi-word text, list items and table cells
C4_Witness ==
  /\ Parsed
  /\ summary.word_count >= 3
  /\ \E k \in 1..Len(nodes) : nodes[k].rows # << >>
  /\ \E k \in 1..Len(nodes) : nodes[k].type = "code" /\ nodes[k].text # << >>

\* word counts for which the rounding is compared
MaxWords == 40

\* C5: summary.reading_time_minutes (in hundredths) is a hundredth nearest
\* to word_count / 200; it is 0 exactly when word_count is 0, and the
\* rounding is non-decreasing in word_count.
C5_ReadingTime ==
  Parsed =>
    /\ 2 * summary.reading_time_minutes - summary.word_count \in {-1, 0, 1}
    /\ (summary.reading_time_minutes = 0 <=> summary.word_count = 0)
    /\ pc = "parsed" =>
         \A w \in 0..MaxWords :
           /\ reading_time(w) <= reading_time(w + 1)
           /\ (w <= summary.word_count
                 => reading_time(w) <= summary.reading_time_minutes)
           /\ (w >= summary.word_count
                 => reading_time(w) >= summary.reading_time_minutes)

\* a result with an odd word count, where the quotient is a decimal tie
C5_Witness ==
  /\ Parsed
  /\ summary.word_count % 2 = 1
  /\ summary.word_count >= 3
  /\ summary.reading_time_minutes > 0

\* C6: a non-blank line that is not a marker line, reached by the main
\* cursor, appends one paragraph node with the stripped line as text and one
\* warning with the 1-based line number, and moves the cursor one line on.
C6_StrayLine ==
  [][(/\ pc = "parse"
      /\ idx < Len(lines)
      /\ ~IsBlank(lines[idx + 1])
      /\ ~_is_marker_line(lines[idx + 1])) =>
       /\ Len(nodes') = Len(nodes) + 1
       /\ SubSeq(nodes', 1, Len(nodes)) = nodes
       /\ nodes'[Len(nodes')].type = "paragraph"
       /\ nodes'[Len(nodes')].text = Strip(lines[idx + 1])
       /\ Len(warnings') = Len(warnings) + 1
       /\ SubSeq(warnings', 1, Len(warnings)) = warnings
       /\ warnings'[Len(warnings')].line = idx + 1
       /\ idx' = idx + 1
    ]_vars

\* an indented stray line below the first line has become a paragraph
C6_Witness ==
  \E k \in 1..Len(nodes) :
    /\ origin[k] >= 1
    /\ ~_is_marker_line(lines[origin[k] + 1])
    /\ lines[origin[k] + 1] # Strip(lines[origin[k] + 1])
    /\ \E w \in 1..Len(warnings) :
         /\ warnings[w].line = origin[k] + 1
         /\ warnings[w].kind = "treated as PARAGRAPH (no marker found)"

\* the lines after the marker line of nodes[k] up to the next marker line,
\* each right-trimmed
RawLines(k) ==
  [j \in 1..(NextMarker(lines, origin[k]) - origin[k] - 1) |->
     RStrip(lines[origin[k] + j + 1])]

\* ls without its trailing empty lines
TrimTrailingBlank(ls) ==
  IF \A i \in 1..Len(ls) : ls[i] = << >> THEN << >>
  ELSE SubSeq(ls, 1, CHOOSE i \in 1..Len(ls) :
                       /\ ls[i] # << >>
                       /\ \A j \in (i+1)..Len(ls) : ls[j] = << >>)

\* ls without its leading empty lines
TrimLeadingBlank(ls) ==
  IF \A i \in 1..Len(ls) : ls[i] = << >> THEN << >>
  ELSE SubSeq(ls, CHOOSE i \in 1..Len(ls) :
                    /\ ls[i] # << >>
                    /\ \A j \in 1..(i-1) : ls[j] = << >>,
              Len(ls))

PayloadOf(k) == MarkerMatch(lines[origin[k] + 1]).payload

IsCodeNode(k) == nodes[k].type = "code" /\ _is_marker_line(lines[origin[k] + 1])

\* C7 as stated: a code node's text is the right-trimmed raw lines after the
\* marker up to the next marker line, joined with newlines, with only the
\* trailing blank lines removed.
C7_Original ==
  Parsed =>
    \A k \in 1..Len(nodes) :
      IsCodeNode(k) =>
        nodes[k].text = Join(TrimTrailingBlank(RawLines(k)), << "\n" >>)

\* C7 (amended): a code node's text is the marker line's payload, when it
\* is not empty, followed by the right-trimmed and otherwise untransformed
\* raw lines after the marker up to the next marker line, joined with
\* newlines, with the leading and the trailing blank lines removed.
C7_CodeText ==
  Parsed =>
    \A k \in 1..Len(nodes) :
      IsCodeNode(k) =>
        nodes[k].text =
          Join(TrimLeadingBlank(TrimTrailingBlank(
                 (IF PayloadOf(k) # << >> THEN << PayloadOf(k) >> ELSE << >>)
                 \o RawLines(k))),
               << "\n" >>)

\* a code block that starts with a blank line, keeps the indentation of its
\* first content line and ends at a marker line
C7_Witness ==
  /\ Parsed
  /\ \E k \in 1..Len(nodes) :
       /\ IsCodeNode(k)
       /\ PayloadOf(k) = << >>
       /\ Len(RawLines(k)) >= 2
       /\ RawLines(k)[1] = << >>
       /\ nodes[k].text # << >>
       /\ Head(nodes[k].text) = " "
       /\ NextMarker(lines, origin[k]) < Len(lines)

\* the cells C8 gives a row: split on "|", each cell trimmed, the one empty
\* cell before a leading pipe and the one after a trailing pipe dropped
ClaimedCells(row) ==
  LET r == Strip(row)
      cells == [i \in 1..Len(Split(r, "|")) |-> Strip(Split(r, "|")[i])]
      a == IF StartsWith(r, << "|" >>) THEN 2 ELSE 1
      b == IF EndsWith(r, << "|" >>) /\ Len(cells) >= a
             THEN Len(cells) - 1 ELSE Len(cells)
  IN  SubSeq(cells, a, b)

IsRowLine(line) == StartsWith(Strip(line), << "|" >>)

\* the row lines of the table block of nodes[k]: the payload when it starts
\* with a pipe, then the lines of the block that start with a pipe
RowLines(k) ==
  (IF StartsWith(PayloadOf(k), << "|" >>) THEN << PayloadOf(k) >> ELSE << >>)
  \o SelectSeq(SubSeq(lines, origin[k] + 2, NextMarker(lines, origin[k])),
               IsRowLine)

IsTableNode(k) == nodes[k].type = "table" /\ _is_marker_line(lines[origin[k] + 1])

\* C8: every row of a table node is its row line split on "|" with each cell
\* trimmed, where a leading and a trailing pipe each drop only the single
\* empty cell they produce; rows keep their own cell count.
C8_RowCells ==
  Parsed =>
    \A k \in 1..Len(nodes) :
      IsTableNode(k) =>
        nodes[k].rows =
          NonEmpty([j \in 1..Len(RowLines(k)) |-> ClaimedCells(RowLines(k)[j])])

\* C2: for every input text that is not blank, parsing it and rendering the
\* result completes without raising in each target.  The renderers of
\* parser.py and create_docx have no raising path and are total operators
\* here; the page-oriented DocumentBuilder is where a rendering can raise,
\* so the claim is that build ends with the document, never an exception.
C2_NeverRaises ==
  (pc = "built" /\ Strip(content) # << >>) => built.status = "ok"

\* m is a sequence of one-line blocks: non-blank lines that are not marker
\* lines and carry no outer whitespace, each followed by one empty line
OneLineBlocks(m) ==
  LET ls == Split(m, "\n")
  IN  \/ m = << "\n" >>
      \/ /\ Len(ls) % 2 = 0
         /\ \A i \in 1..Len(ls) :
              IF i % 2 = 1
                THEN /\ ls[i] # << >>
                     /\ Strip(ls[i]) = ls[i]
                     /\ ~_is_marker_line(ls[i])
                ELSE ls[i] = << >>

\* C9 as stated: for a document of headings, paragraphs, lists, code blocks
\* and tables in which every line belongs to a marked block, the Markdown m
\* of the parsed document is a fixed point of parsing and rendering again.
C9_Original ==
  (pc = "reparsed" /\ warnings = << >>) => md2 = md

\* C9 (amended): the Markdown m of the parsed document is a fixed point of
\* parsing and rendering again whenever m is a sequence of one-line blocks:
\* single non-blank lines, none a marker line or with outer whitespace, each
\* followed by one empty line.
C9_FixedPoint ==
  (pc = "reparsed" /\ OneLineBlocks(md)) => md2 = md

\* a document of marked blocks only, with a heading, a one-item list and a
\* paragraph, whose Markdown differs from the source text and is reproduced
C9_Witness ==
  /\ pc = "reparsed"
  /\ warnings = << >>
  /\ OneLineBlocks(md)
  /\ Len(nodes) >= 3
  /\ \E k \in 1..Len(nodes) : nodes[k].type = "heading"
  /\ \E k \in 1..Len(nodes) :
       nodes[k].type \in { "bullet", "numbered" } /\ Len(nodes[k].items) = 1
  /\ \E k \in 1..Len(nodes) : nodes[k].type = "paragraph"
  /\ md # content
  /\ md2 = md

\* row 0 of a table of the written document has the header styling
HeaderStyled(row) ==
  \A c \in 1..Len(row) :
    /\ row[c].bold
    /\ row[c].fill = "table_header_bg"
    /\ row[c].color = "table_header_text"

\* body row k >= 1 has the fill of its parity
BodyStyled(row, k) ==
  \A c \in 1..Len(row) :
    row[c].fill = IF k % 2 = 1 THEN "table_odd_row" ELSE "table_even_row"

RowsStyled(cells) ==
  /\ HeaderStyled(cells[1])
  /\ \A k \in 1..(Len(cells) - 1) : BodyStyled(cells[k + 1], k)

TablesStyled(blocks) ==
  \A b \in 1..Len(blocks) :
    blocks[b].kind = "table" => RowsStyled(blocks[b].cells)

\* the preview fills its body rows: the stylesheet has a background rule
\* for them, or no body row is opened by a bare <tr>
PreviewRowsFilled ==
  \/ CssBackgrounds \cap { "tbody", "tr", "td" } # { }
  \/ \A i \in 1..Len(html) : html[i] # "<tr>"

\* C10: in the preview and in the page-oriented renderings, row 0 of a table
\* has the header styling (bold text, header fill and text colour) and every
\* body row k >= 1 has the "odd" fill when k is odd and the "even" fill when
\* k is even.
C10_RowStyling ==
  /\ (pc = "rendered" /\ target = "html") =>
       ("thead" \in CssBackgrounds /\ PreviewRowsFilled)
  /\ (pc = "rendered" /\ target = "docx") => TablesStyled(docx)
  /\ (pc = "built" /\ built.status = "ok") => TablesStyled(built.blocks)

\* one row of a Markdown table: the cells between "| " and " |", separated
\* by " | "
C11_Row(cells) ==
  << "|", " " >> \o Join(cells, << " ", "|", " " >>) \o << " ", "|" >>

\* the lines the reference mapping gives one node
C11_NodeLines(node) ==
  CASE node.type = "heading" ->
         << [i \in 1..node.level |-> "#"] \o << " " >> \o node.text >>
    [] node.type = "paragraph" -> << node.text >>
    [] node.type = "bullet" ->
         [i \in 1..Len(node.items) |-> << "-", " " >> \o node.items[i]]
    [] node.type = "numbered" ->
         [i \in 1..Len(node.items) |->
            Decimal(i) \o << ".", " " >> \o node.items[i]]
    [] node.type = "code" ->
         << << Backtick, Backtick, Backtick >>, node.text,
            << Backtick, Backtick, Backtick >> >>
    [] node.type = "table" ->
         IF node.rows = << >> THEN << >>
         ELSE << C11_Row(node.rows[1]),
                 C11_Row([c \in 1..Len(node.rows[1]) |-> << "-", "-", "-" >>]) >>
              \o [r \in 1..(Len(node.rows) - 1) |-> C11_Row(node.rows[r + 1])]
    [] OTHER -> << >>

\* the lines of the nodes from the k-th on, an empty line after each node
RECURSIVE C11_Lines(_, _)
C11_Lines(ns, k) ==
  IF k > Len(ns) THEN << >>
  ELSE C11_NodeLines(ns[k]) \o << << >> >> \o C11_Lines(ns, k + 1)

C11_Reference(ns) ==
  Strip(Join(C11_Lines(ns, 1), << "\n" >>)) \o << "\n" >>

\* C11: for every node sequence, to_markdown's output is the reference
\* mapping (a heading is level '#' characters, a space and the text; a
\* bullet item is '- item'; a numbered item is 'N. item', N from 1 in each
\* block; code is fenced; a table is its header row, a separator row of as
\* many dash cells as rows[0] has cells, and the remaining rows in order;
\* an empty line after each node), trimmed and ending with exactly one
\* newline.
C11_MarkdownMapping ==
  (pc = "rendered" /\ target = "md") =>
    /\ md = C11_Reference(nodes)
    /\ md[Len(md)] = "\n"
    /\ Len(md) > 1 => md[Len(md) - 1] # "\n"

\* a numbered list of two items followed by a jagged table has been rendered
C11_Witness ==
  /\ pc = "rendered"
  /\ target = "md"
  /\ Len(nodes) = 2
  /\ nodes[1].type = "numbered" /\ Len(nodes[1].items) = 2
  /\ nodes[2].type = "table" /\ Len(nodes[2].rows) = 3
  /\ md = << "1", ".", " ", "a", "\n", "2", ".", " ", "b", " ", "c", "\n",
             "\n",
             "|", " ", "h", " ", "|", " ", "k", " ", "|", "\n",
             "|", " ", "-", "-", "-", " ", "|", " ", "-", "-", "-", " ", "|", "\n",
             "|", " ", "1", " ", "|", "\n",
             "|", " ", "2", " ", "|", " ", " ", "|", " ", "3", " ", "|", "\n" >>

\* the download last answered asked for the file id of the k-th generate
\* request while that request's file was not older than the TTL
C12_InTime(k) ==
  /\ served.status # 0
  /\ served.fileId = issued[k].fileId
  /\ served.at - issued[k].file.mtime <= ttl_seconds

\* that download was answered with the file the request returned and the
\* media type of that file's extension
C12_Resolves ==
  \A k \in 1..Len(issued) :
    C12_InTime(k) =>
      /\ served.status = 200
      /\ served.file = issued[k].file
      /\ served.file.request = k
      /\ served.media_type = MEDIA_TYPES[issued[k].file.ext]

\* no step removes a file that is not older than the TTL
C12_KeepsYoung ==
  \A f \in files : clock - f.mtime <= ttl_seconds => f \in files'

\* C12: after any sequence of generate requests of any formats, a download
\* of a file id returned by an earlier generate resolves to exactly the file
\* written for that request, never to another request's file, with the media
\* type of that file's extension, as long as the file is not older than the
\* store's TTL; and the cleanup never removes a file younger than the TTL.
C12_DownloadResolves ==
  [] C12_Resolves /\ [][C12_KeepsYoung]_vars

\* the marker name of a stripped line: the characters before its first
\* colon when they are a capital letter followed by capital letters, digits
\* and hyphens; << >> when the line has no such prefix
C13_MarkerName(s) ==
  IF \E k \in 2..Len(s) :
       /\ s[k] = ":"
       /\ s[1] \in UpperSet
       /\ \A j \in 2..(k - 1) : s[j] \in UpperSet \cup Digits \cup { "-" }
    THEN LET k == CHOOSE k \in 2..Len(s) :
                    s[k] = ":" /\ \A j \in 1..(k - 1) : s[j] # ":"
         IN  SubSeq(s, 1, k - 1)
    ELSE << >>

\* the line starts, after its indentation, with a bullet glyph, whitespace
\* and content
C13_BulletGlyph(line) ==
  \E n \in 1..Len(line) :
    /\ \A j \in 1..(n - 1) : line[j] \in WS
    /\ line[n] \in { "-", "*", "U+2022" }
    /\ Len(line) >= n + 2
    /\ line[n + 1] \in WS

\* the line starts, after its indentation, with digits, '.' or ')' and
\* whitespace
C13_NumberedPrefix(line) ==
  \E n \in 1..Len(line), m \in 1..Len(line) :
    /\ n <= m
    /\ \A j \in 1..(n - 1) : line[j] \in WS
    /\ \A j \in n..m : line[j] \in Digits
    /\ Len(line) >= m + 2
    /\ line[m + 1] \in { ".", ")" }
    /\ line[m + 2] \in WS

\* the label of the first rule that matches, in the fixed priority order
C13_Label(line) ==
  LET s == Strip(line)
  IN  IF s = << >> THEN "empty"
      ELSE IF C13_MarkerName(s) # << >> THEN MarkerType(C13_MarkerName(s))
      ELSE IF \E i \in 1..Len(line) : line[i] = "|" THEN "table"
      ELSE IF C13_BulletGlyph(line) THEN "bullet"
      ELSE IF C13_NumberedPrefix(line) THEN "numbered"
      ELSE IF \E kw \in code_starts : StartsWith(s, kw) THEN "code"
      ELSE IF \E i \in 1..Len(line) : line[i] \in ascii_chars THEN "ascii"
      ELSE IF Len(s) >= 40 THEN "paragraph"
      ELSE "text"

\* C13: classify_line returns, for every line and without raising, the
\* label of the first rule that matches in the order blank, marker, pipe
\* (table), bullet glyph, numbered prefix, code-like token, box-drawing
\* character (ascii), stripped length >= 40 (paragraph), text; so every
\* non-marker line with a '|' is a table line and every marker line has its
\* marker's label whatever else it contains.
C13_PriorityOrder ==
  pc = "built" =>
    \A k \in 1..Len(built.classified) :
      built.classified[k].label.type
        = C13_Label(Split(content, "\n")[built.classified[k].line])

\* the lines that several rules match have been classified by build
C13_Witness ==
  /\ pc = "built"
  /\ content = S_Priority
  /\ [k \in 1..Len(built.classified) |-> built.classified[k].label.type]
       = << "h1", "table", "bullet", "code", "text", "numbered", "code",
            "ascii" >>

\* the characters of a line before its first colon, outer whitespace apart
C14_Name(line) ==
  LET s == Strip(line)
  IN  IF \E k \in 1..Len(s) : s[k] = ":"
        THEN SubSeq(s, 1, (CHOOSE k \in 1..Len(s) :
                             s[k] = ":" /\ \A j \in 1..(k - 1) : s[j] # ":") - 1)
        ELSE << >>

C14_UpperCase(name) == [i \in 1..Len(name) |-> Upper(name[i])]

\* the line's marker is one of the names, written in lower or mixed case
C14_MixedCase(line, names) ==
  /\ C14_UpperCase(C14_Name(line)) \in names
  /\ C14_Name(line) \notin names

\* the marker names of the block parser and of the line classifier
C14_ParserNames ==
  { << "H", d >> : d \in { "1", "2", "3", "4", "5", "6" } }
  \cup { Keywords[k].chars : k \in 1..Len(Keywords) }

C14_ClassifierNames == { MARKERS[k].chars : k \in 1..Len(MARKERS) }

\* the classifier did not treat a line of a lower- or mixed-case marker as
\* a marker line: the content it returned is the line, not a payload
C14_ClassifierExact ==
  pc = "built" =>
    \A k \in 1..Len(built.classified) :
      LET line == Split(content, "\n")[built.classified[k].line]
      IN  C14_MixedCase(line, C14_ClassifierNames) =>
            Strip(built.classified[k].label.content) = Strip(line)

\* the node type and heading level of a block parser's marker name
C14_Type(name) ==
  IF Len(name) = 2 THEN "heading"
  ELSE CASE name[1] = "P" -> "paragraph" [] name[1] = "B" -> "bullet"
         [] name[1] = "N" -> "numbered" [] name[1] = "C" -> "code"
         [] OTHER -> "table"

C14_Level(name) ==
  IF Len(name) = 2
    THEN CHOOSE l \in 1..6 : DigitChars[l + 1] = name[2]
    ELSE 0

C14_StrayWarned(i) ==
  \E w \in 1..Len(warnings) :
    /\ warnings[w].line = i + 1
    /\ warnings[w].kind = "treated as PARAGRAPH (no marker found)"

\* C14 as stated: marker names are matched case-sensitively by the line
\* classifier and by the block parser: neither treats a line whose marker
\* is written in lower or mixed case as a marker line (the block parser makes
\* no node of the marker's type of it; where its cursor reaches the line,
\* the line is a paragraph of its own with a warning).
C14_Original ==
  /\ C14_ClassifierExact
  /\ Parsed =>
       \A i \in 0..(Len(lines) - 1) :
         C14_MixedCase(lines[i + 1], C14_ParserNames) =>
           \A k \in 1..Len(nodes) :
             origin[k] = i =>
               /\ nodes[k].type = "paragraph"
               /\ nodes[k].text = Strip(lines[i + 1])
               /\ C14_StrayWarned(i)

\* C14 (amended): the line classifier matches marker names case-sensitively
\* and does not treat a line whose marker is written in lower or mixed case
\* as a marker line; the block parser matches its marker names without
\* regard to case and treats such a line as the marker line of the
\* upper-case name: it is the origin of one node of the marker's type and
\* level and is not reported as an unmarked line.
C14_CaseMatching ==
  /\ C14_ClassifierExact
  /\ Parsed =>
       \A i \in 0..(Len(lines) - 1) :
         C14_MixedCase(lines[i + 1], C14_ParserNames) =>
           /\ Cardinality({ k \in 1..Len(nodes) : origin[k] = i }) = 1
           /\ NodeAt(i).type = C14_Type(C14_UpperCase(C14_Name(lines[i + 1])))
           /\ NodeAt(i).level = C14_Level(C14_UpperCase(C14_Name(lines[i + 1])))
           /\ ~C14_StrayWarned(i)

\* 'h1: Title', 'Table:', 'bullet: x' and 'Code: y' have been parsed into
\* a heading, a table, a list and a code block
C14_Witness ==
  /\ pc = "parsed"
  /\ content = S_LowerCase
  /\ [k \in 1..Len(nodes) |-> nodes[k].type]
       = << "heading", "table", "bullet", "code" >>
  /\ nodes[1].level = 1
  /\ nodes[1].text = << "T", "i", "t", "l", "e" >>
  /\ \A w \in 1..Len(warnings) : ~C14_StrayWarned(warnings[w].line - 1)

\* the warning that the TABLE block of the k-th node has no rows
C15_NoRowsWarned(k) ==
  \E w \in 1..Len(warnings) :
    /\ warnings[w].line = origin[k] + 1
    /\ warnings[w].kind = "TABLE has no rows"

\* C15 as stated: in every ParseResult, every node of type table has a
\* non-empty rows list.
C15_Original ==
  Parsed =>
    \A k \in 1..Len(nodes) : nodes[k].type = "table" => nodes[k].rows # << >>

\* C15 (amended): in every ParseResult, every node of type table has a
\* non-empty rows list of non-empty rows, except the node of a TABLE block
\* that yielded no row: that node has an empty rows list and comes with a
\* warning that names the marker's line.
C15_TableRows ==
  Parsed =>
    \A k \in 1..Len(nodes) :
      nodes[k].type = "table" =>
        /\ \A r \in 1..Len(nodes[k].rows) : nodes[k].rows[r] # << >>
        /\ nodes[k].rows = << >> <=> C15_NoRowsWarned(k)

\* a TABLE block without rows, followed by another block, has been parsed
\* into a table node without rows and its warning
C15_Witness ==
  /\ Parsed
  /\ \E k \in 1..(Len(nodes) - 1) :
       /\ nodes[k].type = "table"
       /\ nodes[k].rows = << >>
       /\ C15_NoRowsWarned(k)

\* the request's text is empty: zero-length or whitespace only
C16_Empty == Strip(content) = << >>

\* C16: empty input text (zero-length or whitespace only) is rejected with
\* an error before any parsing begins on every entry point: build raises,
\* and a request or a call of parse_notesforge never starts the parse loop
\* on it and never produces a ParseResult or an output.
C16_EmptyRejected ==
  C16_Empty =>
    /\ pc = "built" =>
         built.status = "raised" /\ built.error = "ValueError"
    /\ pc = "parse" => idx = 0
    /\ ~Parsed

\* the line terminators a text may use
C17_Terminators == { << "\n" >>, << "\r", "\n" >>, << "\r" >> }

\* the text with CRLF and CR replaced by LF
C17_LF(t) == ReplaceCR(ReplaceCRLF(t))

\* the variant of an LF text that uses term as its line terminator
C17_Variant(t, term) == Join(Split(t, "\n"), term)

\* the text uses one terminator throughout
C17_IsVariant(t) ==
  \E term \in C17_Terminators : t = C17_Variant(C17_LF(t), term)

\* C17: line terminators are normalised before classification: a text
\* that uses LF, CRLF or CR as its terminator gets the nodes, warnings and
\* summary of its LF variant from parse_notesforge, and the per-line
\* classifications of its LF variant from build.
C17_TerminatorsNormalised ==
  C17_IsVariant(content) =>
    /\ pc = "parsed" =>
         \E r \in { parse_notesforge(C17_LF(content)) } :
            /\ nodes = r.nodes
            /\ warnings = r.warnings
            /\ summary = r.summary
    /\ pc = "built" =>
         \E exists \in BOOLEAN :
            built.classified = build(C17_LF(content), exists).classified

\* the headings of the whole document, in source order
C18_Headings ==
  LET IsHeading(c) == c.label.type \in DOMAIN HeadingLevels
      hs == SelectSeq(built.classified, IsHeading)
  IN  [h \in 1..Len(hs) |->
         [level |-> HeadingLevels[hs[h].label.type],
          text |-> hs[h].label.content]]

\* block b is the title paragraph that _add_toc adds
C18_IsTocTitle(b) == << b >> = _add_toc(<< >>)

\* C18: a TOC marker renders one entry for every heading of the whole
\* document, in source order, the headings after the TOC line included,
\* wherever the TOC line is.
C18_TocComplete ==
  (pc = "built" /\ built.status = "ok") =>
    \A b \in 1..Len(built.blocks) :
      C18_IsTocTitle(built.blocks[b]) =>
        /\ b + Len(C18_Headings) <= Len(built.blocks)
        /\ SubSeq(built.blocks, b, b + Len(C18_Headings))
             = _add_toc(C18_Headings)

\* C19: every line classify_line labels "text" is rendered as a paragraph,
\* exactly as a line labelled "paragraph" with the same content would be;
\* no such line is omitted from the built document.
C19_TextAsParagraph ==
  (pc = "built" /\ built.status = "ok") =>
    \A k \in 1..Len(built.classified) :
      \E c \in { built.classified[k] }, ls \in { Split(content, "\n") } :
         c.label.type = "text" =>
           \E st \in { BuildStep(c.label, ls, c.line, built.headings,
                                 built.footnotes, FALSE) },
              asParagraph \in { BuildStep([c.label EXCEPT !.type = "paragraph"],
                                          ls, c.line, built.headings,
                                          built.footnotes, FALSE) } :
              /\ st.raised = asParagraph.raised
              /\ st.blocks = asParagraph.blocks
              /\ st.blocks # << >>

IsListNode(k) ==
  /\ nodes[k].type \in { "bullet", "numbered" }
  /\ _is_marker_line(lines[origin[k] + 1])

\* the item a list of the type given makes of a line or of a payload
C20_Item(type, line) ==
  LET nline == Strip(line)
      unbulleted == IF nline # << >> /\ nline[1] \in { "-", "*" }
                      THEN Strip(LStripSet(nline, { "-", "*", " " }))
                      ELSE nline
      unnumbered == Strip(StripNumberPrefix(nline))
  IN  IF type = "bullet" THEN unbulleted
      ELSE IF unnumbered # << >> THEN unnumbered ELSE nline

\* the item of the marker line's own payload, when it leaves one
C20_PayloadItems(k) ==
  LET cleaned == IF nodes[k].type = "bullet"
                   THEN Strip(LStripSet(PayloadOf(k), { "-", "*", " " }))
                   ELSE Strip(StripNumberPrefix(PayloadOf(k)))
  IN  IF cleaned # << >> THEN << cleaned >> ELSE << >>

\* the first line after line i (0-based) that is blank, or the number of
\* lines when there is none
C20_NextBlank(i) ==
  LET blanks == { j \in (i + 1)..(Len(lines) - 1) : IsBlank(lines[j + 1]) }
  IN  IF blanks = {} THEN Len(lines)
      ELSE CHOOSE j \in blanks : \A h \in blanks : j <= h

\* the items of the non-blank lines after the marker line of node k, up to
\* the line at `stop` (0-based, exclusive)
C20_ItemsUpTo(k, stop) ==
  LET IsItem(line) == ~IsBlank(line)
      raw == SelectSeq(SubSeq(lines, origin[k] + 2, stop), IsItem)
  IN  C20_PayloadItems(k)
        \o [j \in 1..Len(raw) |-> C20_Item(nodes[k].type, raw[j])]

\* C20 as stated: a BULLET or NUMBERED block takes the lines after its
\* marker one item per line, with the bullet glyph or the number prefix
\* stripped, and stops at the first marker line or the first blank line;
\* lines after a blank line are never items of that list.
C20_Original ==
  Parsed =>
    \A k \in 1..Len(nodes) :
      IsListNode(k) =>
        \E marker \in { NextMarker(lines, origin[k]) },
           blank \in { C20_NextBlank(origin[k]) } :
           nodes[k].items =
             C20_ItemsUpTo(k, IF blank < marker THEN blank ELSE marker)

\* C20 (amended): a BULLET or NUMBERED block takes the non-blank lines
\* after its marker one item per line, with the bullet glyph or the number
\* prefix stripped, and stops at the first marker line only; blank lines
\* are skipped, and the lines that follow them are items of that list.
C20_ListBlocks ==
  Parsed =>
    \A k \in 1..Len(nodes) :
      IsListNode(k) =>
        nodes[k].items = C20_ItemsUpTo(k, NextMarker(lines, origin[k]))

\* a parsed bullet list whose last item is a line that follows a blank line
C20_Witness ==
  /\ pc = "parsed"
  /\ content = S_Lists
  /\ IsListNode(1)
  /\ nodes[1].items = << << "a" >>, << "b" >>, << "c" >> >>
  /\ IsBlank(lines[3])
  /\ IsListNode(2)
  /\ nodes[2].items = << << "x" >>, << "y" >>, << "3", "." >>, << "z" >> >>

\* the line starts with a pipe once trimmed
C21_IsPipeLine(line) == StartsWith(Strip(line), << "|" >>)

\* the line has a character other than pipes and surrounding whitespace
C21_HasCells(line) == StripSet(Strip(line), { "|" }) # << >>

\* the 1-based numbers of the non-blank lines the TABLE block of nodes[k]
\* consumes after its marker line
C21_BlockLines(k) ==
  { j \in (origin[k] + 2)..NextMarker(lines, origin[k]) : ~IsBlank(lines[j]) }

\* the rows the marker line's own payload contributes: 0 or 1
C21_PayloadRows(k) ==
  IF C21_IsPipeLine(PayloadOf(k)) /\ C21_HasCells(PayloadOf(k)) THEN 1 ELSE 0

\* the number of warnings that name line j
C21_WarningsAt(j) ==
  Cardinality({ w \in 1..Len(warnings) : warnings[w].line = j })

\* every line of the block that does not start with a pipe is reported by
\* exactly one warning naming its line
C21_NonPipeWarned(k) ==
  \A j \in C21_BlockLines(k) :
    ~C21_IsPipeLine(lines[j]) =>
      /\ C21_WarningsAt(j) = 1
      /\ \E w \in 1..Len(warnings) :
           warnings[w] = Warning(j, "ignored invalid TABLE row")

\* C21 as stated: in a TABLE block every non-blank, non-marker line that
\* starts with a pipe contributes exactly one row, and every one that does
\* not is left out of the rows and gets exactly one warning with its
\* 1-based line number.
C21_Original ==
  Parsed =>
    \A k \in 1..Len(nodes) :
      IsTableNode(k) =>
        /\ Len(nodes[k].rows) =
             C21_PayloadRows(k)
             + Cardinality({ j \in C21_BlockLines(k) : C21_IsPipeLine(lines[j]) })
        /\ C21_NonPipeWarned(k)

\* C21 (amended): in a TABLE block every non-blank, non-marker line that
\* starts with a pipe and holds anything besides pipes contributes exactly
\* one row; a line of pipes only contributes no row and no warning; every
\* line that does not start with a pipe is left out of the rows and gets
\* exactly one warning with its 1-based line number.
C21_TableLines ==
  Parsed =>
    \A k \in 1..Len(nodes) :
      IsTableNode(k) =>
        /\ Len(nodes[k].rows) =
             C21_PayloadRows(k)
             + Cardinality({ j \in C21_BlockLines(k) :
                               C21_IsPipeLine(lines[j]) /\ C21_HasCells(lines[j]) })
        /\ \A j \in C21_BlockLines(k) :
             C21_IsPipeLine(lines[j]) => C21_WarningsAt(j) = 0
        /\ C21_NonPipeWarned(k)

\* a parsed TABLE block with row lines, a line of one pipe and a line
\* without a pipe
C21_Witness ==
  /\ pc = "parsed"
  /\ content = S_TableRows
  /\ IsTableNode(1)
  /\ Len(nodes[1].rows) = 5
  /\ lines[7] = << "|" >>
  /\ C21_WarningsAt(7) = 0
  /\ ~C21_IsPipeLine(lines[8])
  /\ warnings = << Warning(8, "ignored invalid TABLE row") >>

\* the node type and the warning of a block of no items or rows
C22_Blocks ==
  [BULLET |-> [type |-> "bullet", kind |-> "BULLET block has no items"],
   NUMBERED |-> [type |-> "numbered", kind |-> "NUMBERED block has no items"],
   TABLE |-> [type |-> "table", kind |-> "TABLE has no rows"]]

\* the warnings that name line j (1-based)
C22_WarningsAt(j) == SelectSeq(warnings, LAMBDA w : w.line = j)

\* C22: whenever a BULLET or NUMBERED block yields no items or a TABLE
\* block yields no rows, the node is still emitted with an empty list and
\* exactly one warning naming the marker's 1-based line number is
\* appended; no such warning is appended when the block has an item or a
\* row.
C22_EmptyBlocks ==
  Parsed =>
    \A i \in 0..(Len(lines) - 1) :
      Branch(lines, i) \in DOMAIN C22_Blocks =>
        \E b \in { C22_Blocks[Branch(lines, i)] } :
          /\ \E k \in 1..Len(nodes) : origin[k] = i
          /\ \A k \in 1..Len(nodes) :
               origin[k] = i =>
                 /\ nodes[k].type = b.type
                 /\ IF nodes[k].items = << >> /\ nodes[k].rows = << >>
                      THEN C22_WarningsAt(i + 1) = << Warning(i + 1, b.kind) >>
                      ELSE C22_WarningsAt(i + 1) = << >>

\* the three blocks without content have been parsed into their empty
\* nodes, each with its one warning
C22_Witness ==
  /\ pc = "parsed"
  /\ content = S_Empty
  /\ nodes[1] = Node("table", << >>, 0, << >>, << >>)
  /\ nodes[2] = Node("bullet", << >>, 0, << >>, << >>)
  /\ nodes[3] = Node("numbered", << >>, 0, << >>, << >>)
  /\ SubSeq(warnings, 1, 3)
       = << Warning(1, "TABLE has no rows"),
            Warning(2, "BULLET block has no items"),
            Warning(3, "NUMBERED block has no items") >>

\* the line is written as a marker line, NAME: ..., with a name that is not
\* one of the block parser's markers
C23_UnknownMarker(line) ==
  /\ CoreMarkerMatch(Strip(line)).ok
  /\ ~_is_marker_line(line)

\* the main loop is at a line with an unknown marker
C23_AtUnknownMarker ==
  /\ pc = "parse"
  /\ idx < Len(lines)
  /\ C23_UnknownMarker(lines[idx + 1])

\* C23 as stated: a line whose marker is not one of the block parser's
\* markers is skipped silently by the main loop: no node, no warning, and
\* the cursor advances by exactly one line.
C23_Original ==
  [][C23_AtUnknownMarker =>
       /\ idx' = idx + 1
       /\ nodes' = nodes
       /\ warnings' = warnings]_vars

\* C23 (amended): a line whose marker is not one of the block parser's
\* markers is handled by the main loop as a line without a marker: it
\* produces one paragraph node holding the trimmed line and one warning
\* naming its 1-based line number, and the cursor advances by exactly one
\* line.
C23_UnknownMarkerLine ==
  [][C23_AtUnknownMarker =>
       /\ idx' = idx + 1
       /\ nodes' = Append(nodes, Node("paragraph", Strip(lines[idx + 1]), 0,
                                      << >>, << >>))
       /\ warnings' = Append(warnings,
                        Warning(idx + 1, "treated as PARAGRAPH (no marker found)"))]_vars

\* the line QUOTE: q has been parsed into a paragraph node and a warning
C23_Witness ==
  /\ pc = "parsed"
  /\ content = S_Callouts
  /\ C23_UnknownMarker(lines[1])
  /\ nodes[1] = Node("paragraph", << "Q", "U", "O", "T", "E", ":", " ", "q" >>,
                     0, << >>, << >>)
  /\ warnings[1] = Warning(1, "treated as PARAGRAPH (no marker found)")

\* position i of template t holds a token: X or Y, in either case, that
\* stands alone as a word
C24_IsToken(t, i) ==
  /\ t[i] \in { "X", "Y", "x", "y" }
  /\ (i = 1 \/ t[i - 1] \notin WordChars)
  /\ (i = Len(t) \/ t[i + 1] \notin WordChars)

\* the template with PAGE written for every token X and NUMPAGES for
\* every token Y
C24_Marked(t) ==
  [i \in 1..Len(t) |->
     IF ~C24_IsToken(t, i) THEN t[i]
     ELSE IF t[i] \in { "X", "x" } THEN "PAGE" ELSE "NUMPAGES"]

\* the switch of a numbering style
C24_Switch(style) ==
  CASE style = << "r", "o", "m", "a", "n" >> ->
         << " ", "\\", "*", " ", "R", "O", "M", "A", "N" >>
    [] style = << "a", "l", "p", "h", "a" >> ->
         << " ", "\\", "*", " ", "A", "L", "P", "H", "A", "B", "E", "T", "I",
            "C" >>
    [] OTHER -> << >>

\* the five runs of a live field with the code given
C24_Field(code) ==
  << PageRun("fldChar", << "b", "e", "g", "i", "n" >>),
     PageRun("instrText", code),
     PageRun("fldChar", << "s", "e", "p", "a", "r", "a", "t", "e" >>),
     PageRun("text", << "1" >>),
     PageRun("fldChar", << "e", "n", "d" >>) >>

\* the runs from run i on, read back left to right: the characters of a
\* text run, PAGE or NUMPAGES for a well-formed field in the style given,
\* "malformed" for anything else
RECURSIVE C24_Read(_, _, _)
C24_Read(runs, i, style) ==
  IF i > Len(runs) THEN << >>
  ELSE IF runs[i].kind = "text" THEN runs[i].text \o C24_Read(runs, i + 1, style)
  ELSE IF /\ i + 4 <= Len(runs)
          /\ SubSeq(runs, i, i + 4)
               = C24_Field(<< "P", "A", "G", "E" >> \o C24_Switch(style))
    THEN << "PAGE" >> \o C24_Read(runs, i + 5, style)
  ELSE IF /\ i + 4 <= Len(runs)
          /\ SubSeq(runs, i, i + 4)
               = C24_Field(<< "N", "U", "M", "P", "A", "G", "E", "S" >>
                             \o C24_Switch(style))
    THEN << "NUMPAGES" >> \o C24_Read(runs, i + 5, style)
  ELSE << "malformed" >>

\* the sections of the built document that show a page number, with the
\* numbering style one of the three of style_map
C24_Sections ==
  { s \in { "header", "footer" } :
      /\ pc = "built"
      /\ built.status = "ok"
      /\ app_config[s].page_number_position = s
      /\ app_config[s].page_number_style
           \in { << "a", "r", "a", "b", "i", "c" >>, << "r", "o", "m", "a", "n" >>,
                 << "a", "l", "p", "h", "a" >> } }

\* the runs _append_page_number_format appended to the section's
\* paragraph, after its text and the separator run
C24_PageRuns(s) == SubSeq(header_footer[s], 3, Len(header_footer[s]))

\* C24 as stated: for every page format template the runs are, left to
\* right in template order, the template's literal text unchanged with a
\* PAGE field at every token X and a NUMPAGES field at every token Y, in
\* the configured numbering style: exactly one field per token.
C24_Original ==
  \A s \in C24_Sections :
    C24_Read(C24_PageRuns(s), 1, app_config[s].page_number_style)
      = C24_Marked(app_config[s].page_format)

\* the template the runs are made from: the format trimmed, X when nothing
\* is left, with {page} written as X and {pages} and {total} as Y
C24_Template(fmt) ==
  SubLiteralsCI(
    SubLiteralsCI(IF Strip(fmt) = << >> THEN << "X" >> ELSE Strip(fmt),
                  { << "{", "p", "a", "g", "e", "}" >> }, << "X" >>),
    { << "{", "p", "a", "g", "e", "s", "}" >>,
      << "{", "t", "o", "t", "a", "l", "}" >> }, << "Y" >>)

\* C24 (amended): the template is the page format trimmed (X when it is
\* empty) with the placeholders {page} and {pages}, {total} written as X
\* and Y; the runs are, left to right in template order, the template's
\* literal text unchanged with a PAGE field at every token X and a NUMPAGES
\* field at every token Y, in the configured numbering style, exactly one
\* field per token; a template without any token is followed by one PAGE
\* field.
C24_PageNumberRuns ==
  \A s \in C24_Sections :
    \E t \in { C24_Template(app_config[s].page_format) } :
      C24_Read(C24_PageRuns(s), 1, app_config[s].page_number_style)
        = C24_Marked(t)
            \o (IF \E i \in 1..Len(t) : C24_IsToken(t, i)
                  THEN << >> ELSE << "PAGE" >>)

\* a footer built from "Page X of Y" in roman numbering: text, PAGE field,
\* text, NUMPAGES field
C24_Witness ==
  /\ "footer" \in C24_Sections
  /\ app_config.footer.page_format = CanonicalFormat
  /\ app_config.footer.page_number_style = << "r", "o", "m", "a", "n" >>
  /\ C24_Read(C24_PageRuns("footer"), 1, << "r", "o", "m", "a", "n" >>)
       = << "P", "a", "g", "e", " ", "PAGE", " ", "o", "f", " ", "NUMPAGES" >>
  /\ Len(C24_PageRuns("footer")) = 12

\* the page format the configuration file gives section s, or the default
\* of AppConfig() when the file does not have the key
C25_Stored(s) ==
  IF s \in DOMAIN config_file.data /\ "page_format" \in DOMAIN config_file.data[s]
    THEN config_file.data[s].page_format
    ELSE AppConfig[s].page_format

\* the configuration is what from_dict makes of the file: it was loaded
C25_IsLoaded ==
  /\ config_file.exists
  /\ app_config = from_dict(config_file.data)

\* a loaded configuration holds none of the values in legacy
C25_NeverHolds(legacy) ==
  C25_IsLoaded =>
    \A s \in DOMAIN app_config : app_config[s].page_format \notin legacy

\* a step that loads the file replaces the page formats for which
\* isLegacy holds by 'Page X of Y', leaves the others unchanged, and
\* loading the result again changes nothing
C25_Load(isLegacy(_)) ==
  (LoadConfig /\ config_file.exists) =>
    /\ \A s \in DOMAIN AppConfig :
         app_config'[s].page_format =
           IF isLegacy(C25_Stored(s)) THEN CanonicalFormat ELSE C25_Stored(s)
    /\ from_dict(app_config') = app_config'

\* C25 as stated: when a configuration is loaded with from_dict, a header
\* or footer page format equal to the legacy value is replaced by exactly
\* 'Page X of Y', every other page format is left unchanged, and loading
\* the result again changes nothing, so a loaded configuration never holds
\* the legacy value.
C25_Original ==
  /\ [] C25_NeverHolds(LegacyFormats)
  /\ [][C25_Load(LAMBDA f : f \in LegacyFormats)]_vars

\* C25 (amended): when a configuration is loaded with from_dict, a header
\* or footer page format that equals one of the two legacy values once
\* its surrounding whitespace is trimmed is replaced by exactly
\* 'Page X of Y', every other page format is left unchanged, and loading
\* the result again changes nothing, so a loaded configuration never holds
\* a legacy value, trimmed or not.
C25_Migration ==
  /\ [] C25_NeverHolds({ f \in PageFormats \cup HeaderFormats :
                           Strip(f) \in LegacyFormats })
  /\ [][C25_Load(LAMBDA f : Strip(f) \in LegacyFormats)]_vars

\* a server that has loaded a file whose footer holds a legacy page format
C25_Witness ==
  /\ C25_IsLoaded
  /\ C25_Stored("footer") \in LegacyFormats
  /\ app_config.footer.page_format = CanonicalFormat

\* the string once a leading '#' is removed
C26_Digits ==
  IF Len(hex_color) >= 1 /\ hex_color[1] = "#" THEN Tail(hex_color)
  ELSE hex_color

\* exactly six hexadecimal digits
C26_SixHex ==
  /\ Len(C26_Digits) = 6
  /\ \A i \in 1..6 : IsHexDigit(C26_Digits[i])

\* the value of the two hexadecimal digits at i
C26_Byte(i) == 16 * HexValue(C26_Digits[i]) + HexValue(C26_Digits[i + 1])

C26_Fallback == IF rgb.by = "_hex_color" THEN Black ELSE PrimaryFallback

\* C26: for every string, the colour parsers return the RGB value of the
\* string when, after removing a leading '#', it consists of exactly six
\* hexadecimal digits, and in every other case (any other length, or any
\* character that is not a hexadecimal digit) return the fixed fallback
\* colour without raising.
C26_ColorParsers ==
  rgb # NoColor =>
    /\ ~ rgb.raised
    /\ IF C26_SixHex
         THEN /\ rgb.r = C26_Byte(1)
              /\ rgb.g = C26_Byte(3)
              /\ rgb.b = C26_Byte(5)
         ELSE rgb = C26_Fallback

\* the parts of re.split on the paragraph's text: those at an even
\* position are the recognised spans, the others the text between them
C27_Parts == SplitInline(para_text)

\* the run the claim gives the recognised span: its inner text, bold,
\* italic or coloured, in body font
C27_SpanRuns(part) ==
  IF StartsWith(part, << "*", "*" >>)
    THEN { Run(SubSeq(part, 3, Len(part) - 2), TRUE, FALSE, FALSE, "body",
               "body") }
  ELSE IF StartsWith(part, << "*" >>)
    THEN { Run(SubSeq(part, 2, Len(part) - 1), FALSE, TRUE, FALSE, "body",
               "body") }
  ELSE { Run(ColorMatch(part).text_part, FALSE, FALSE, FALSE, "body", c) :
           c \in IF NamedColor(ColorMatch(part).color_name) = "default"
                   THEN { "default", "body" }
                   ELSE { NamedColor(ColorMatch(part).color_name) } }

\* the parts that give a run: the spans and the non-empty other text
C27_Emitting ==
  { k \in 1..Len(C27_Parts) : k % 2 = 0 \/ C27_Parts[k] # << >> }

\* C27: for every paragraph text, _add_paragraph emits runs left to right
\* such that each **bold**, *italic* and {colorname:text} span becomes
\* exactly one run carrying its inner text (bold, italic, or coloured with
\* the named colour, or with the default body colour when the name is
\* unknown), and all other text is emitted unchanged as plain runs in body
\* font, size and colour; the run texts together are the input with only
\* the delimiters of the recognised spans removed.
C27_InlineRuns ==
  para # NoParagraph =>
    /\ ~ para.raised
    /\ Len(para.blocks[1].runs) = Cardinality(C27_Emitting)
    /\ \A k \in C27_Emitting :
         para.blocks[1].runs[Cardinality({ j \in C27_Emitting : j <= k })]
           \in IF k % 2 = 0
                 THEN C27_SpanRuns(C27_Parts[k])
                 ELSE { Run(C27_Parts[k], FALSE, FALSE, FALSE, "body",
                            "body") }

\* t occurs in s
C28_Occurs(t, s) ==
  \E i \in 0..(Len(s) - Len(t)) : SubSeq(s, i + 1, i + Len(t)) = t

\* the text written on line i (1-based): the payload of a marker line,
\* the trimmed line otherwise
C28_Text(i) ==
  IF _is_marker_line(lines[i]) THEN MarkerMatch(lines[i]).payload
  ELSE Strip(lines[i])

\* the node of the block that consumed line i: the last one appended at
\* or before it
C28_Owner(i) ==
  CHOOSE k \in 1..Len(nodes) :
    /\ origin[k] <= i - 1
    /\ \A h \in 1..Len(nodes) : origin[h] <= i - 1 => origin[h] <= origin[k]

\* the text holds list or table delimiters only: nothing to contribute
C28_OnlyDelimiters(t) ==
  \/ \A j \in 1..Len(t) : t[j] \in { "-", "*", " ", "|" }
  \/ StripNumberPrefix(t) = << >>

\* the node carries the text: in its text, as the end of one of its
\* items, or as the cells of one of its rows
C28_Carries(node, t) ==
  \/ node.type \in { "heading", "paragraph", "code" } /\ C28_Occurs(t, node.text)
  \/ \E j \in 1..Len(node.items) :
       node.items[j] # << >> /\ EndsWith(t, node.items[j])
  \/ \E j \in 1..Len(node.rows) : node.rows[j] = _split_table_row(t)

\* C28: parse_notesforge never loses input content silently: every line
\* that is not blank, the payload written on a marker line included,
\* either contributes its text to some node of the result or is reported
\* by a warning that names its 1-based line number.
C28_NoSilentLoss ==
  Parsed =>
    \A i \in 1..Len(lines) :
      \/ C28_Text(i) = << >>
      \/ C28_OnlyDelimiters(C28_Text(i))
      \/ \E j \in 1..Len(warnings) : warnings[j].line = i
      \/ C28_Carries(nodes[C28_Owner(i)], C28_Text(i))

\* C29: in the theme store of the legacy server a custom theme saved with
\* key K can be removed by a delete request with the same key K: for
\* every key K that is not built in, a save of K followed by a delete of
\* K succeeds and returns the stored themes to what they were before the
\* save.
C29_SaveThenDelete ==
  [][(/\ reply.op = "save"
      /\ reply.status = 200
      /\ reply'.op = "delete"
      /\ reply'.key = reply.key)
       => /\ reply'.status = 200
          /\ themes' = before]_vars

\* t occurs in s as whole lines: from the start of s or of a line to the
\* end of a line
C30_LinesOccur(t, s) ==
  \E i \in 0..(Len(s) - Len(t)) :
    /\ SubSeq(s, i + 1, i + Len(t)) = t
    /\ i = 0 \/ s[i] = "\n"
    /\ i + Len(t) = Len(s) \/ s[i + Len(t) + 1] = "\n"

\* the code node's text in the output of the renderer: escaped inside the
\* <pre><code> element, between the fences, or as lines of the plain text
C30_Preserved(text) ==
  CASE target = "html" ->
         C28_Occurs(<< "<pre><code>" >> \o escape(text) \o << "</code></pre>" >>,
                    html)
    [] target = "md" ->
         C30_LinesOccur(Fence \o << "\n" >> \o text \o << "\n" >> \o Fence, md)
    [] target = "txt" -> C30_LinesOccur(text, txt)
    [] OTHER -> TRUE

\* C30: in every text renderer (preview HTML, Markdown, plain text), for
\* every node sequence and every position of a code node in it, the code
\* node's text appears in the output with its whitespace preserved
\* exactly, the leading indentation of its first line included.
C30_CodeWhitespace ==
  pc = "rendered" =>
    \A k \in 1..Len(nodes) :
      nodes[k].type = "code" => C30_Preserved(nodes[k].text)

====
